---- MODULE Spec2Model ----
(***************************************************************************)
(* Model of the PTY-backed shell bridge of dev-flow:                       *)
(*   backend/main.go          isCommandBlocked, executeCommand,            *)
(*                            handleShellWebSocket                         *)
(*   backend/utils/ws_shell.go HandleShellWebSocket                        *)
(* A Go string or []byte is a sequence of bytes, a byte an integer 0..255;  *)
(* Str writes one from its characters.                                     *)
(***************************************************************************)
EXTENDS Integers, Sequences, FiniteSets, TLC

VARIABLES
    handler,     \* the entry point this run exercises
    config,      \* the global *Config: Nil, or a record with BlockedCommands
    command,     \* the command argument / the `command` query parameter
    pc,          \* position of the handler (or of the call under check)
    blocked,     \* value returned by the isCommandBlocked call, Nil before
    result,      \* CommandResult returned by executeCommand, Nil before
    spawnCount,  \* number of calls of pty.Start / cmd.Run so far
    ws,          \* server side of the WebSocket: "none", "open", "closed"
    client,      \* the peer: "connected" or "closed"
    ptmx,        \* PTY master handle: "nil", "open", "closed"
    proc,        \* the shell process: "none", "running", "exited", "killed"
    killIssued,  \* cmd.Process.Kill has been called
    pumpA,       \* PTY -> connection goroutine: "none", "running", "done"
    pumpB,       \* connection -> PTY goroutine (utils only): same values
    done,        \* the `done` channel of utils.HandleShellWebSocket is closed
    inbox,       \* client messages not yet returned by ReadMessage
    ptyIn,       \* byte chunks written to the PTY, in write order
    ptyOut,      \* chunks the shell produced that Read has not returned yet
    sent,        \* payloads accepted by ws.WriteMessage, in send order
    ret,         \* what the handler returned: "none", "nil", or an error
    nIn,         \* client messages sent so far (bounded by MaxIn)
    nOut,        \* chunks the shell produced so far (bounded by MaxOut)
    received,    \* every message the client sent, in the order it sent them
    produced,    \* every chunk the shell printed, in the order it printed them
    stops,       \* calls of wsPty.Stop that have returned
    sessions,    \* SessionsSpec: the locals of each running handler
    conns,       \* SessionsSpec: the connections, by the order of upgrade
    ptys         \* SessionsSpec: the PTYs, by the order of pty.Start

vars == <<handler, config, command, pc, blocked, result, spawnCount, ws,
          client, ptmx, proc, killIssued, pumpA, pumpB, done, inbox, ptyIn,
          ptyOut, sent, ret, nIn, nOut, received, produced, stops,
          sessions, conns, ptys>>

(* What no step of a handler changes, and what only the environment does. *)
inputs == <<handler, config, command>>
history == <<received, produced>>
execVars == <<blocked, result>>

(* What only SessionsSpec uses: everywhere else one handler runs alone and  *)
(* its locals, its connection and its PTY are the variables above.          *)
tables == <<sessions, conns, ptys>>

(* A pointer or optional value is a sequence of length 0 (nil) or 1. *)
Nil == <<>>
Ref(x) == <<x>>
Deref(p) == p[1]

-----------------------------------------------------------------------------
(* ASCII codes of the characters the model writes. *)
Upper == <<"A","B","C","D","E","F","G","H","I","J","K","L","M",
           "N","O","P","Q","R","S","T","U","V","W","X","Y","Z">>
Lower == <<"a","b","c","d","e","f","g","h","i","j","k","l","m",
           "n","o","p","q","r","s","t","u","v","w","x","y","z">>
Digits == <<"0","1","2","3","4","5","6","7","8","9">>

Pos(table, c) == CHOOSE i \in 1..Len(table) : table[i] = c
In(table, c) == \E i \in 1..Len(table) : table[i] = c

Ascii(c) ==
    IF In(Upper, c) THEN 64 + Pos(Upper, c)
    ELSE IF In(Lower, c) THEN 96 + Pos(Lower, c)
    ELSE IF In(Digits, c) THEN 47 + Pos(Digits, c)
    ELSE CASE c = "\n" -> 10 [] c = "\r" -> 13 [] c = " " -> 32
           [] c = "$" -> 36 [] c = "+" -> 43 [] c = "/" -> 47
           [] c = "=" -> 61 [] c = "{" -> 123 [] c = "}" -> 125

(* The bytes of a text given as its characters. *)
Str(chars) == [i \in 1..Len(chars) |-> Ascii(chars[i])]

-----------------------------------------------------------------------------
(* Bounds of the model. *)
MaxCmdLen == 3
MaxPatLen == 2
MaxBlocked == 2
MaxIn == 2
MaxOut == 2
MaxBytes == 4

RECURSIVE SeqsUpTo(_, _)
SeqsUpTo(S, n) ==
    IF n = 0 THEN {<<>>}
    ELSE LET shorter == SeqsUpTo(S, n - 1)
         IN  shorter \cup {Append(s, x) : s \in shorter, x \in S}

CmdChars == {Ascii("a"), Ascii("A"), Ascii(" ")}
PatChars == {Ascii("a"), Ascii("A")}
Commands == SeqsUpTo(CmdChars, MaxCmdLen)
Patterns == SeqsUpTo(PatChars, MaxPatLen)
BlockedLists == SeqsUpTo(Patterns, MaxBlocked)

-----------------------------------------------------------------------------
(* strings.Contains(s, substr): strings.Index(s, substr) >= 0, the index    *)
(* being that of the first window of s equal to substr, -1 when none is.    *)
RECURSIVE IndexFrom(_, _, _)
IndexFrom(s, substr, i) ==
    IF i + Len(substr) > Len(s) THEN -1
    ELSE IF SubSeq(s, i + 1, i + Len(substr)) = substr THEN i
    ELSE IndexFrom(s, substr, i + 1)

Index(s, substr) == IndexFrom(s, substr, 0)

Contains(s, substr) == Index(s, substr) >= 0

(* The range loop of isCommandBlocked over BlockedCommands, from entry k. *)
RECURSIVE BlockedFrom(_, _, _)
BlockedFrom(list, cmd, k) ==
    IF k > Len(list) THEN FALSE
    ELSE IF Contains(cmd, list[k]) THEN TRUE
    ELSE BlockedFrom(list, cmd, k + 1)

(* strings.ToLower on ASCII: "A".."Z" (65..90) become "a".."z". *)
ToLower(s) ==
    [i \in 1..Len(s) |-> IF 65 <= s[i] /\ s[i] <= 90 THEN s[i] + 32 ELSE s[i]]

(* A faulty isCommandBlocked: the match folds case. *)
isCommandBlockedFold(cmd) ==
    IF config = Nil \/ Len(Deref(config).BlockedCommands) = 0 THEN FALSE
    ELSE \E k \in 1..Len(Deref(config).BlockedCommands) :
            Contains(ToLower(cmd), ToLower(Deref(config).BlockedCommands[k]))

(* isCommandBlocked reads the global config. *)
isCommandBlocked(cmd) ==
    IF config = Nil \/ Len(Deref(config).BlockedCommands) = 0 THEN FALSE
    ELSE BlockedFrom(Deref(config).BlockedCommands, cmd, 1)

-----------------------------------------------------------------------------
(* Values of the variables a specification does not use. *)
NoBridge ==
    /\ ws = "none" /\ client = "connected" /\ ptmx = "nil" /\ proc = "none"
    /\ killIssued = FALSE /\ pumpA = "none" /\ pumpB = "none" /\ done = FALSE
    /\ inbox = <<>> /\ ptyIn = <<>> /\ ptyOut = <<>> /\ sent = <<>>
    /\ ret = "none" /\ nIn = 0 /\ nOut = 0
    /\ received = <<>> /\ produced = <<>> /\ stops = 0

(* No table of SessionsSpec is in use. *)
NoSessions == sessions = <<>> /\ conns = <<>> /\ ptys = <<>>

bridgeVars == <<ws, client, ptmx, proc, killIssued, pumpA, pumpB, done, inbox,
                ptyIn, ptyOut, sent, ret, nIn, nOut>>

-----------------------------------------------------------------------------
(* BlockedSpec: isCommandBlocked as a pure function of config and command,  *)
(* the configuration absent (Nil) or holding any bounded list.              *)
BlockedInit ==
    /\ handler = "isCommandBlocked"
    /\ config \in {Nil} \cup {Ref([BlockedCommands |-> l]) : l \in BlockedLists}
    /\ command \in Commands
    /\ pc = "call"
    /\ blocked = Nil
    /\ result = Nil
    /\ spawnCount = 0
    /\ NoBridge
    /\ NoSessions

CallIsCommandBlocked ==
    /\ pc = "call"
    /\ blocked' = Ref(isCommandBlocked(command))
    /\ pc' = "returned"
    /\ UNCHANGED <<inputs, tables, history, stops, result, spawnCount,
                   bridgeVars>>

BlockedNext == CallIsCommandBlocked

BlockedSpec == BlockedInit /\ [][BlockedNext]_vars

-----------------------------------------------------------------------------
(* ExecSpec: the one-shot path, handleCommandExecution -> executeCommand.   *)
(* main() sets config before the server starts, so config is never Nil.     *)
BlockedStderr == "Command blocked by security policy"

(* What ExitError.ExitCode() returns: the exit status of a process that     *)
(* exited (never 0), or -1 for one ended by a signal.                       *)
ExitCodes == {-1, 1}
Outputs == {"", "text"}

ExecInit ==
    /\ handler = "handleCommandExecution"
    /\ config \in {Ref([BlockedCommands |-> l]) : l \in BlockedLists}
    /\ command \in Commands
    /\ pc = "request"
    /\ blocked = Nil
    /\ result = Nil
    /\ spawnCount = 0
    /\ NoBridge
    /\ NoSessions

(* A faulty RunResult: the exit code is taken from an *exec.ExitError only  *)
(* and stays 0 for any other error.                                         *)
RunResultNoDefault(cmd, outcome, code, out, errout) ==
    [Command  |-> cmd,
     ExitCode |-> IF outcome = "exit" THEN code ELSE 0,
     Stdout   |-> IF outcome = "nostart" THEN "" ELSE out,
     Stderr   |-> IF outcome = "nostart" THEN "" ELSE errout,
     Success  |-> outcome = "ok"]

(* The CommandResult for the outcome of cmd.Run(): err == nil, an           *)
(* *exec.ExitError carrying the process's exit code, or any other error     *)
(* (the process could not be started).                                      *)
RunResult(cmd, outcome, code, out, errout) ==
    [Command  |-> cmd,
     ExitCode |-> IF outcome = "ok" THEN 0
                  ELSE IF outcome = "exit" THEN code ELSE -1,
     Stdout   |-> IF outcome = "nostart" THEN "" ELSE out,
     Stderr   |-> IF outcome = "nostart" THEN "" ELSE errout,
     Success  |-> outcome = "ok"]

(* A faulty executeCommand: the policy check is skipped. *)
executeCommandUnchecked ==
    /\ pc = "execute"
    /\ \E outcome \in {"ok", "exit", "nostart"}, code \in ExitCodes,
          out \in Outputs, errout \in Outputs :
            result' = Ref(RunResult(command, outcome, code, out, errout))
    /\ spawnCount' = spawnCount + 1
    /\ pc' = "responded"
    /\ UNCHANGED <<inputs, tables, history, stops, blocked, bridgeVars>>

executeCommand ==
    /\ pc = "execute"
    /\ \/ /\ isCommandBlocked(command)
          /\ result' = Ref([Command |-> command, ExitCode |-> 1,
                            Stdout |-> "", Stderr |-> BlockedStderr,
                            Success |-> FALSE])
          /\ UNCHANGED spawnCount
       \/ /\ ~isCommandBlocked(command)
          /\ \E outcome \in {"ok", "exit", "nostart"}, code \in ExitCodes,
                out \in Outputs, errout \in Outputs :
                  result' = Ref(RunResult(command, outcome, code, out, errout))
          /\ spawnCount' = spawnCount + 1
    /\ pc' = "responded"
    /\ UNCHANGED <<inputs, tables, history, stops, blocked, bridgeVars>>

(* handleCommandExecution: an empty command is answered 400 without a call  *)
(* of executeCommand.                                                       *)
handleCommandExecution ==
    /\ pc = "request"
    /\ pc' = IF command = <<>> THEN "badrequest" ELSE "execute"
    /\ UNCHANGED <<inputs, tables, history, stops, blocked, result,
                   spawnCount, bridgeVars>>

ExecNext == handleCommandExecution \/ executeCommand

ExecSpec == ExecInit /\ [][ExecNext]_vars

-----------------------------------------------------------------------------
(* encoding/base64, StdEncoding (padded, not strict). *)
(* The alphabet "A".."Z" (65..90), "a".."z" (97..122), "0".."9" (48..57),   *)
(* "+" (43), "/" (47) for the values 0..63, and "=" (61) for padding.       *)
B64Pad == 61

B64Char(v) ==
    IF v < 26 THEN 65 + v
    ELSE IF v < 52 THEN 97 + (v - 26)
    ELSE IF v < 62 THEN 48 + (v - 52)
    ELSE IF v = 62 THEN 43
    ELSE 47

IsB64Char(c) ==
    \/ 65 <= c /\ c <= 90
    \/ 97 <= c /\ c <= 122
    \/ 48 <= c /\ c <= 57
    \/ c = 43
    \/ c = 47

B64Index(c) ==
    IF 65 <= c /\ c <= 90 THEN c - 65
    ELSE IF 97 <= c /\ c <= 122 THEN 26 + (c - 97)
    ELSE IF 48 <= c /\ c <= 57 THEN 52 + (c - 48)
    ELSE IF c = 43 THEN 62
    ELSE 63

(* EncodeToString: three bytes make four characters; a final group of one  *)
(* or two bytes is padded with "=".                                         *)
RECURSIVE EncodeToString(_)
EncodeToString(src) ==
    IF Len(src) = 0 THEN <<>>
    ELSE IF Len(src) = 1 THEN
        LET v == src[1] * 65536
        IN  <<B64Char(v \div 262144), B64Char((v \div 4096) % 64),
              B64Pad, B64Pad>>
    ELSE IF Len(src) = 2 THEN
        LET v == src[1] * 65536 + src[2] * 256
        IN  <<B64Char(v \div 262144), B64Char((v \div 4096) % 64),
              B64Char((v \div 64) % 64), B64Pad>>
    ELSE
        LET v == src[1] * 65536 + src[2] * 256 + src[3]
        IN  <<B64Char(v \div 262144), B64Char((v \div 4096) % 64),
              B64Char((v \div 64) % 64), B64Char(v % 64)>>
            \o EncodeToString(SubSeq(src, 4, Len(src)))

(* "\n" is 10, "\r" is 13. *)
IsNewline(c) == c = 10 \/ c = 13
NotNewline(c) == ~IsNewline(c)

DecodeError == [err |-> TRUE, bytes |-> <<>>]

(* The quanta of the input once "\r" and "\n" are skipped: a quantum is     *)
(* four characters; "=" may stand only in its last one or last two places,  *)
(* and only in the last quantum; trailing bits are not checked.             *)
RECURSIVE DecodeQuanta(_)
DecodeQuanta(t) ==
    IF Len(t) = 0 THEN [err |-> FALSE, bytes |-> <<>>]
    ELSE IF Len(t) < 4 THEN DecodeError
    ELSE IF ~IsB64Char(t[1]) \/ ~IsB64Char(t[2]) THEN DecodeError
    ELSE IF t[3] = B64Pad THEN
        IF t[4] = B64Pad /\ Len(t) = 4
        THEN LET v == B64Index(t[1]) * 262144 + B64Index(t[2]) * 4096
             IN  [err |-> FALSE, bytes |-> <<v \div 65536>>]
        ELSE DecodeError
    ELSE IF ~IsB64Char(t[3]) THEN DecodeError
    ELSE IF t[4] = B64Pad THEN
        IF Len(t) = 4
        THEN LET v == B64Index(t[1]) * 262144 + B64Index(t[2]) * 4096
                      + B64Index(t[3]) * 64
             IN  [err |-> FALSE, bytes |-> <<v \div 65536, (v \div 256) % 256>>]
        ELSE DecodeError
    ELSE IF ~IsB64Char(t[4]) THEN DecodeError
    ELSE
        LET v == B64Index(t[1]) * 262144 + B64Index(t[2]) * 4096
                 + B64Index(t[3]) * 64 + B64Index(t[4])
            rest == DecodeQuanta(SubSeq(t, 5, Len(t)))
        IN  IF rest.err THEN DecodeError
            ELSE [err |-> FALSE,
                  bytes |-> <<v \div 65536, (v \div 256) % 256, v % 256>>
                            \o rest.bytes]

(* A faulty DecodeString: the URL alphabet, in which "+" (43) and "/" (47)  *)
(* are no digits.                                                           *)
DecodeStringURL(s) ==
    IF \E i \in 1..Len(s) : s[i] = 43 \/ s[i] = 47 THEN DecodeError
    ELSE DecodeQuanta(SelectSeq(s, NotNewline))

DecodeString(s) == DecodeQuanta(SelectSeq(s, NotNewline))

-----------------------------------------------------------------------------
(* CodecSpec: the bridge's encoder followed by its decoder, on any bounded  *)
(* byte sequence: what one ptmx.Read returned is encoded as the goroutine   *)
(* encodes it, and the text is decoded as the loop decodes a message.       *)
CodecBytes == {0, 10, 61, 97, 255}
ByteSeqs == SeqsUpTo(CodecBytes, MaxBytes)

CodecInit ==
    /\ handler = "base64.StdEncoding"
    /\ config = Nil
    /\ command = <<>>
    /\ pc = "encode"
    /\ blocked = Nil
    /\ result = Nil
    /\ spawnCount = 0
    /\ ws = "none" /\ client = "connected" /\ ptmx = "nil" /\ proc = "none"
    /\ killIssued = FALSE /\ pumpA = "none" /\ pumpB = "none" /\ done = FALSE
    /\ inbox = <<>> /\ ptyIn = <<>> /\ sent = <<>>
    /\ \E b \in ByteSeqs : ptyOut = <<b>>
    /\ ret = "none" /\ nIn = 0 /\ nOut = 0
    /\ received = <<>> /\ produced = <<>> /\ stops = 0
    /\ NoSessions

(* encodedOutput := base64.StdEncoding.EncodeToString(buf[:n]) *)
EncodeOutput ==
    /\ pc = "encode"
    /\ sent' = <<EncodeToString(Head(ptyOut))>>
    /\ pc' = "decode"
    /\ UNCHANGED <<inputs, tables, history, stops, execVars, spawnCount, ws,
                   client, ptmx, proc, killIssued, pumpA, pumpB, done, inbox,
                   ptyIn, ptyOut, ret, nIn, nOut>>

(* decodedInput, err := base64.StdEncoding.DecodeString(string(message)) *)
DecodeInput ==
    /\ pc = "decode"
    /\ LET decodedInput == DecodeString(Head(sent))
       IN  IF decodedInput.err
           THEN /\ pc' = "decodeErr"
                /\ UNCHANGED ptyIn
           ELSE /\ pc' = "decoded"
                /\ ptyIn' = <<decodedInput.bytes>>
    /\ UNCHANGED <<inputs, tables, history, stops, execVars, spawnCount, ws,
                   client, ptmx, proc, killIssued, pumpA, pumpB, done, inbox,
                   ptyOut, sent, ret, nIn, nOut>>

CodecNext == EncodeOutput \/ DecodeInput

CodecSpec == CodecInit /\ [][CodecNext]_vars

-----------------------------------------------------------------------------
(* The environment of a bridge: the client, the network and the shell.      *)
StartupCommands == {<<>>, Str(<<"A">>), Str(<<"a", " ">>)}
ShellBlockedLists ==
    {<<>>, <<Str(<<"a">>)>>, <<Str(<<"A", "a">>), Str(<<>>)>>}

(* Text messages a client sends: two well-formed base64 texts and one that  *)
(* is not base64 (no padding).                                              *)
ClientMessages ==
    {EncodeToString(<<97>>), EncodeToString(<<255, 10>>), Str(<<"Y", "Q">>)}

(* Chunks a shell prints: "$ " and a byte that is not UTF-8. *)
OutChunks == {<<36, 32>>, <<255>>}

BridgeInit ==
    /\ handler = "handleShellWebSocket"
    /\ config \in {Ref([BlockedCommands |-> l]) : l \in ShellBlockedLists}
    /\ command \in StartupCommands
    /\ pc = "upgrade"
    /\ blocked = Nil
    /\ result = Nil
    /\ spawnCount = 0
    /\ NoBridge
    /\ NoSessions

(* Messages a client of utils.HandleShellWebSocket sends: raw keystrokes,   *)
(* among them the exit texts the handler looks for.                         *)
UtilsClientMessages ==
    {Str(<<"a">>), Str(<<"e", "x", "i", "t", "\r">>), <<4>>,
     Str(<<"e", "x", "i", "t">>)}

(* The client sends a text message of M on the established connection. *)
ClientSendOf(M) ==
    /\ ws = "open" /\ client = "connected" /\ nIn < MaxIn
    /\ \E m \in M : /\ inbox' = Append(inbox, m)
                    /\ received' = Append(received, m)
    /\ nIn' = nIn + 1
    /\ UNCHANGED <<inputs, tables, produced, stops, pc, execVars, spawnCount,
                   ws, client, ptmx, proc, killIssued, pumpA, pumpB, done,
                   ptyIn, ptyOut, sent, ret, nOut>>

(* The client closes the connection (or the network drops it). *)
ClientClose ==
    /\ ws # "none" /\ client = "connected"
    /\ client' = "closed"
    /\ UNCHANGED <<inputs, tables, history, stops, pc, execVars, spawnCount,
                   ws, ptmx, proc, killIssued, pumpA, pumpB, done, inbox,
                   ptyIn, ptyOut, sent, ret, nIn, nOut>>

(* The shell prints a chunk to its terminal. *)
ShellOutput ==
    /\ proc = "running" /\ nOut < MaxOut
    /\ \E c \in OutChunks : /\ ptyOut' = Append(ptyOut, c)
                            /\ produced' = Append(produced, c)
    /\ nOut' = nOut + 1
    /\ UNCHANGED <<inputs, tables, received, stops, pc, execVars, spawnCount,
                   ws, client, ptmx, proc, killIssued, pumpA, pumpB, done,
                   inbox, ptyIn, sent, ret, nIn>>

(* The shell process ends by itself (exit, signal, hangup). *)
ShellExit ==
    /\ proc = "running"
    /\ proc' = "exited"
    /\ UNCHANGED <<inputs, tables, history, stops, pc, execVars, spawnCount,
                   ws, client, ptmx, killIssued, pumpA, pumpB, done, inbox,
                   ptyIn, ptyOut, sent, ret, nIn, nOut>>

ClientSend == ClientSendOf(ClientMessages)

Environment == ClientSend \/ ClientClose \/ ShellOutput \/ ShellExit

(* Outcomes of ptmx.Write: an error on a closed handle, success while the   *)
(* shell runs, either once the shell has gone.                              *)
PtyWriteOutcomes ==
    IF ptmx # "open" THEN {"err"}
    ELSE IF proc = "running" THEN {"ok"}
    ELSE {"ok", "err"}

(* Outcomes of ws.WriteMessage: an error on a connection this side closed,  *)
(* success while the peer is connected, either once the peer has gone.      *)
WsWriteOutcomes ==
    IF ws # "open" THEN {"err"}
    ELSE IF client = "connected" THEN {"ok"}
    ELSE {"ok", "err"}

-----------------------------------------------------------------------------
(* handleShellWebSocket of backend/main.go.                                 *)
(* pc: "upgrade" -> "start" -> "command" -> "go" -> "loop" -> "returned".   *)
(* The shell path (config.System.Shell.DefaultShell or /bin/bash) only      *)
(* decides whether pty.Start succeeds, which the model leaves open.         *)

(* upgrader.Upgrade: on failure the handler returns the error at once. *)
Upgrade ==
    /\ pc = "upgrade"
    /\ \/ /\ ws' = "open"
          /\ pc' = "start"
          /\ UNCHANGED ret
       \/ /\ ret' = "upgradeErr"
          /\ pc' = "returned"
          /\ UNCHANGED ws
    /\ UNCHANGED <<inputs, tables, history, stops, execVars, spawnCount,
                   client, ptmx, proc, killIssued, pumpA, pumpB, done, inbox,
                   ptyIn, ptyOut, sent, nIn, nOut>>

(* A faulty PtyStart: the error of pty.Start does not end the handler. *)
PtyStartIgnoreError ==
    /\ pc = "start"
    /\ spawnCount' = spawnCount + 1
    /\ \/ /\ ptmx' = "open"
          /\ proc' = "running"
          /\ pc' = "command"
          /\ UNCHANGED <<ret, ws>>
       \/ /\ ret' = "spawnErr"
          /\ pc' = "command"
          /\ UNCHANGED <<ptmx, proc, ws>>
    /\ UNCHANGED <<inputs, tables, history, stops, execVars, client,
                   killIssued, pumpA, pumpB, done, inbox, ptyIn, ptyOut, sent,
                   nIn, nOut>>

(* A faulty PtyStart: a failed pty.Start is tried again. *)
PtyStartRetry ==
    /\ pc = "start"
    /\ spawnCount' = spawnCount + 1
    /\ \/ /\ ptmx' = "open"
          /\ proc' = "running"
          /\ pc' = "command"
          /\ UNCHANGED <<ret, ws>>
       \/ /\ UNCHANGED <<ret, ws, pc, ptmx, proc>>
    /\ UNCHANGED <<inputs, tables, history, stops, execVars, client,
                   killIssued, pumpA, pumpB, done, inbox, ptyIn, ptyOut, sent,
                   nIn, nOut>>

(* pty.Start(cmd): on failure the handler returns the error; the only       *)
(* deferred call registered by then is ws.Close().                          *)
PtyStart ==
    /\ pc = "start"
    /\ spawnCount' = spawnCount + 1
    /\ \/ /\ ptmx' = "open"
          /\ proc' = "running"
          /\ pc' = "command"
          /\ UNCHANGED <<ret, ws>>
       \/ /\ ret' = "spawnErr"
          /\ ws' = "closed"
          /\ pc' = "returned"
          /\ UNCHANGED <<ptmx, proc>>
    /\ UNCHANGED <<inputs, tables, history, stops, execVars, client,
                   killIssued, pumpA, pumpB, done, inbox, ptyIn, ptyOut, sent,
                   nIn, nOut>>

(* A faulty Return: ws.Close() runs but ptmx.Close() does not. *)
ReturnLeakPty(e) ==
    /\ ret' = e
    /\ pc' = "returned"
    /\ ws' = "closed"
    /\ UNCHANGED ptmx

(* A return once both defers are registered: ptmx.Close(), then ws.Close(). *)
Return(e) ==
    /\ ret' = e
    /\ pc' = "returned"
    /\ ptmx' = "closed"
    /\ ws' = "closed"

(* A faulty StartupCommand: the command is written without the check. *)
StartupCommandUnchecked ==
    /\ pc = "command"
    /\ IF command # <<>>
       THEN \E o \in PtyWriteOutcomes :
               ptyIn' = IF o = "ok"
                        THEN Append(ptyIn, command \o <<10>>)
                        ELSE ptyIn
       ELSE UNCHANGED ptyIn
    /\ pc' = "go"
    /\ UNCHANGED <<ret, ptmx, ws>>
    /\ UNCHANGED <<inputs, tables, history, stops, execVars, spawnCount,
                   client, proc, killIssued, pumpA, pumpB, done, inbox,
                   ptyOut, sent, nIn, nOut>>

(* A faulty StartupCommand: the goroutine is started before the startup     *)
(* command is looked at.                                                    *)
StartupCommandAfterGo ==
    /\ pc = "command"
    /\ IF pumpA = "none"
       THEN /\ pumpA' = "running"
            /\ UNCHANGED <<pc, ret, ptmx, ws, ptyIn>>
       ELSE /\ IF command # <<>>
               THEN IF isCommandBlocked(command)
                    THEN /\ Return("forbidden")
                         /\ UNCHANGED ptyIn
                    ELSE /\ \E o \in PtyWriteOutcomes :
                               ptyIn' = IF o = "ok"
                                        THEN Append(ptyIn, command \o <<10>>)
                                        ELSE ptyIn
                         /\ pc' = "go"
                         /\ UNCHANGED <<ret, ptmx, ws>>
               ELSE /\ pc' = "go"
                    /\ UNCHANGED <<ret, ptmx, ws, ptyIn>>
            /\ UNCHANGED pumpA
    /\ UNCHANGED <<inputs, tables, history, stops, execVars, spawnCount,
                   client, proc, killIssued, pumpB, done, inbox, ptyOut, sent,
                   nIn, nOut>>

(* The `command` query parameter: when not empty it is checked against the  *)
(* policy (403 when blocked) and else written with "\n" (10); a failed      *)
(* write is only logged.                                                    *)
StartupCommand ==
    /\ pc = "command"
    /\ IF command # <<>>
       THEN IF isCommandBlocked(command)
            THEN /\ Return("forbidden")
                 /\ UNCHANGED ptyIn
            ELSE /\ \E o \in PtyWriteOutcomes :
                       ptyIn' = IF o = "ok"
                                THEN Append(ptyIn, command \o <<10>>)
                                ELSE ptyIn
                 /\ pc' = "go"
                 /\ UNCHANGED <<ret, ptmx, ws>>
       ELSE /\ pc' = "go"
            /\ UNCHANGED <<ret, ptmx, ws, ptyIn>>
    /\ UNCHANGED <<inputs, tables, history, stops, execVars, spawnCount,
                   client, proc, killIssued, pumpA, pumpB, done, inbox,
                   ptyOut, sent, nIn, nOut>>

(* go func() { ... }(): the PTY -> WebSocket goroutine is started. *)
GoPumpA ==
    /\ pc = "go"
    /\ pumpA' = "running"
    /\ pc' = "loop"
    /\ UNCHANGED <<inputs, tables, history, stops, execVars, spawnCount, ws,
                   client, ptmx, proc, killIssued, pumpB, done, inbox, ptyIn,
                   ptyOut, sent, ret, nIn, nOut>>

(* A faulty ReadLoop: a decode error breaks the loop. *)
ReadLoopBreakOnDecodeError ==
    /\ pc = "loop"
    /\ \/ /\ ws = "open" /\ inbox # <<>>
          /\ inbox' = Tail(inbox)
          /\ LET decodedInput == DecodeString(Head(inbox))
             IN  IF decodedInput.err
                 THEN /\ Return("nil")
                      /\ UNCHANGED ptyIn
                 ELSE \E o \in PtyWriteOutcomes :
                        IF o = "ok"
                        THEN /\ ptyIn' = Append(ptyIn, decodedInput.bytes)
                             /\ UNCHANGED <<pc, ret, ptmx, ws>>
                        ELSE /\ Return("nil")
                             /\ UNCHANGED ptyIn
       \/ /\ inbox = <<>> /\ client = "closed"
          /\ Return("nil")
          /\ UNCHANGED <<inbox, ptyIn>>
    /\ UNCHANGED <<inputs, tables, history, stops, execVars, spawnCount,
                   client, proc, killIssued, pumpA, pumpB, done, ptyOut, sent,
                   nIn, nOut>>

(* A faulty ReadLoop: each write is handed to a goroutine of its own, so a   *)
(* chunk may reach the PTY ahead of chunks written before it.               *)
ReadLoopAsyncWrite ==
    /\ pc = "loop"
    /\ \/ /\ ws = "open" /\ inbox # <<>>
          /\ inbox' = Tail(inbox)
          /\ LET decodedInput == DecodeString(Head(inbox))
             IN  IF decodedInput.err
                 THEN UNCHANGED <<ptyIn, pc, ret, ptmx, ws>>
                 ELSE /\ \E k \in 0..Len(ptyIn) :
                            ptyIn' = SubSeq(ptyIn, 1, k)
                                     \o <<decodedInput.bytes>>
                                     \o SubSeq(ptyIn, k + 1, Len(ptyIn))
                      /\ UNCHANGED <<pc, ret, ptmx, ws>>
       \/ /\ inbox = <<>> /\ client = "closed"
          /\ Return("nil")
          /\ UNCHANGED <<inbox, ptyIn>>
    /\ UNCHANGED <<inputs, tables, history, stops, execVars, spawnCount,
                   client, proc, killIssued, pumpA, pumpB, done, ptyOut, sent,
                   nIn, nOut>>

(* A faulty ReadLoop: the error of ReadMessage that ended the loop is       *)
(* returned to the framework.                                               *)
ReadLoopReturnError ==
    /\ pc = "loop"
    /\ \/ /\ ws = "open" /\ inbox # <<>>
          /\ inbox' = Tail(inbox)
          /\ LET decodedInput == DecodeString(Head(inbox))
             IN  IF decodedInput.err
                 THEN UNCHANGED <<ptyIn, pc, ret, ptmx, ws>>
                 ELSE \E o \in PtyWriteOutcomes :
                        IF o = "ok"
                        THEN /\ ptyIn' = Append(ptyIn, decodedInput.bytes)
                             /\ UNCHANGED <<pc, ret, ptmx, ws>>
                        ELSE /\ Return("nil")
                             /\ UNCHANGED ptyIn
       \/ /\ inbox = <<>> /\ client = "closed"
          /\ Return("readErr")
          /\ UNCHANGED <<inbox, ptyIn>>
    /\ UNCHANGED <<inputs, tables, history, stops, execVars, spawnCount,
                   client, proc, killIssued, pumpA, pumpB, done, ptyOut, sent,
                   nIn, nOut>>

(* A faulty ReadLoop: a message that is not base64 is answered with an      *)
(* error text, sent by the handler's own goroutine.                         *)
ReadLoopReportDecodeError ==
    /\ pc = "loop"
    /\ \/ /\ ws = "open" /\ inbox # <<>>
          /\ inbox' = Tail(inbox)
          /\ LET decodedInput == DecodeString(Head(inbox))
             IN  IF decodedInput.err
                 THEN /\ \E o \in WsWriteOutcomes :
                            sent' = IF o = "ok"
                                    THEN Append(sent, EncodeToString(<<63>>))
                                    ELSE sent
                      /\ UNCHANGED <<ptyIn, pc, ret, ptmx, ws>>
                 ELSE /\ \E o \in PtyWriteOutcomes :
                            IF o = "ok"
                            THEN /\ ptyIn' = Append(ptyIn, decodedInput.bytes)
                                 /\ UNCHANGED <<pc, ret, ptmx, ws>>
                            ELSE /\ Return("nil")
                                 /\ UNCHANGED ptyIn
                      /\ UNCHANGED sent
       \/ /\ inbox = <<>> /\ client = "closed"
          /\ Return("nil")
          /\ UNCHANGED <<inbox, ptyIn, sent>>
    /\ UNCHANGED <<inputs, tables, history, stops, execVars, spawnCount,
                   client, proc, killIssued, pumpA, pumpB, done, ptyOut, nIn,
                   nOut>>

(* One turn of the WebSocket -> PTY loop: ReadMessage, DecodeString, Write. *)
(* A read error or a write error breaks the loop and the handler returns    *)
(* nil; a decode error drops the message.                                   *)
ReadLoop ==
    /\ pc = "loop"
    /\ \/ /\ ws = "open" /\ inbox # <<>>
          /\ inbox' = Tail(inbox)
          /\ LET decodedInput == DecodeString(Head(inbox))
             IN  IF decodedInput.err
                 THEN UNCHANGED <<ptyIn, pc, ret, ptmx, ws>>
                 ELSE \E o \in PtyWriteOutcomes :
                        IF o = "ok"
                        THEN /\ ptyIn' = Append(ptyIn, decodedInput.bytes)
                             /\ UNCHANGED <<pc, ret, ptmx, ws>>
                        ELSE /\ Return("nil")
                             /\ UNCHANGED ptyIn
       \/ /\ inbox = <<>> /\ client = "closed"
          /\ Return("nil")
          /\ UNCHANGED <<inbox, ptyIn>>
    /\ UNCHANGED <<inputs, tables, history, stops, execVars, spawnCount,
                   client, proc, killIssued, pumpA, pumpB, done, ptyOut, sent,
                   nIn, nOut>>

(* A faulty PumpA: the goroutine ends after the first message it sends. *)
PumpAOneShot ==
    /\ pumpA = "running"
    /\ \/ /\ ptmx = "open" /\ ptyOut # <<>>
          /\ ptyOut' = Tail(ptyOut)
          /\ \E o \in WsWriteOutcomes :
                sent' = IF o = "ok"
                        THEN Append(sent, EncodeToString(Head(ptyOut)))
                        ELSE sent
          /\ pumpA' = "done"
       \/ /\ ptmx = "closed" \/ (proc # "running" /\ ptyOut = <<>>)
          /\ pumpA' = "done"
          /\ UNCHANGED <<ptyOut, sent>>
    /\ UNCHANGED <<inputs, tables, history, stops, pc, execVars, spawnCount,
                   ws, client, ptmx, proc, killIssued, pumpB, done, inbox,
                   ptyIn, ret, nIn, nOut>>

(* A faulty PumpA: the whole buffer is encoded instead of buf[:n], so a      *)
(* message carries, after the bytes just read, what a longer earlier read   *)
(* left behind them in the buffer.                                          *)
PumpAStaleBuffer ==
    /\ pumpA = "running"
    /\ \/ /\ ptmx = "open" /\ ptyOut # <<>>
          /\ ptyOut' = Tail(ptyOut)
          /\ \E o \in WsWriteOutcomes :
                IF o = "ok"
                THEN /\ LET k == Len(produced) - Len(ptyOut)
                            c == Head(ptyOut)
                            buf == IF k = 0 THEN c
                                   ELSE c \o SubSeq(produced[k], Len(c) + 1,
                                                    Len(produced[k]))
                        IN  sent' = Append(sent, EncodeToString(buf))
                     /\ UNCHANGED pumpA
                ELSE /\ pumpA' = "done"
                     /\ UNCHANGED sent
       \/ /\ ptmx = "closed" \/ (proc # "running" /\ ptyOut = <<>>)
          /\ pumpA' = "done"
          /\ UNCHANGED <<ptyOut, sent>>
    /\ UNCHANGED <<inputs, tables, history, stops, pc, execVars, spawnCount,
                   ws, client, ptmx, proc, killIssued, pumpB, done, inbox,
                   ptyIn, ret, nIn, nOut>>

(* A faulty PumpA: buf[:n] is encoded and sent before the error of Read is  *)
(* looked at, so the read that reports the end of the stream sends an       *)
(* empty message.                                                           *)
PumpASendBeforeCheck ==
    /\ pumpA = "running"
    /\ \/ /\ ptmx = "open" /\ ptyOut # <<>>
          /\ ptyOut' = Tail(ptyOut)
          /\ \E o \in WsWriteOutcomes :
                IF o = "ok"
                THEN /\ sent' = Append(sent, EncodeToString(Head(ptyOut)))
                     /\ UNCHANGED pumpA
                ELSE /\ pumpA' = "done"
                     /\ UNCHANGED sent
       \/ /\ ptmx = "closed" \/ (proc # "running" /\ ptyOut = <<>>)
          /\ pumpA' = "done"
          /\ \E o \in WsWriteOutcomes :
                sent' = IF o = "ok"
                        THEN Append(sent, EncodeToString(<<>>))
                        ELSE sent
          /\ UNCHANGED ptyOut
    /\ UNCHANGED <<inputs, tables, history, stops, pc, execVars, spawnCount,
                   ws, client, ptmx, proc, killIssued, pumpB, done, inbox,
                   ptyIn, ret, nIn, nOut>>

(* A faulty PumpA: a failed Read is tried again instead of ending the loop. *)
PumpARetryRead ==
    /\ pumpA = "running"
    /\ ptmx = "open" /\ ptyOut # <<>>
    /\ ptyOut' = Tail(ptyOut)
    /\ \E o \in WsWriteOutcomes :
          IF o = "ok"
          THEN /\ sent' = Append(sent, EncodeToString(Head(ptyOut)))
               /\ UNCHANGED pumpA
          ELSE /\ pumpA' = "done"
               /\ UNCHANGED sent
    /\ UNCHANGED <<inputs, tables, history, stops, pc, execVars, spawnCount,
                   ws, client, ptmx, proc, killIssued, pumpB, done, inbox,
                   ptyIn, ret, nIn, nOut>>

(* One turn of the PTY -> WebSocket goroutine: Read, EncodeToString,        *)
(* WriteMessage. Read fails on a closed handle and reports the end of the   *)
(* stream once the shell has gone and its output is drained.                *)
PumpA ==
    /\ pumpA = "running"
    /\ \/ /\ ptmx = "open" /\ ptyOut # <<>>
          /\ ptyOut' = Tail(ptyOut)
          /\ \E o \in WsWriteOutcomes :
                IF o = "ok"
                THEN /\ sent' = Append(sent, EncodeToString(Head(ptyOut)))
                     /\ UNCHANGED pumpA
                ELSE /\ pumpA' = "done"
                     /\ UNCHANGED sent
       \/ /\ ptmx = "closed" \/ (proc # "running" /\ ptyOut = <<>>)
          /\ pumpA' = "done"
          /\ UNCHANGED <<ptyOut, sent>>
    /\ UNCHANGED <<inputs, tables, history, stops, pc, execVars, spawnCount,
                   ws, client, ptmx, proc, killIssued, pumpB, done, inbox,
                   ptyIn, ret, nIn, nOut>>

handleShellWebSocket ==
    Upgrade \/ PtyStart \/ StartupCommand \/ GoPumpA \/ ReadLoop

Next == handleShellWebSocket \/ PumpA \/ Environment

Spec == BridgeInit /\ [][Next]_vars

(* The Go scheduler runs every runnable goroutine; the client and the shell *)
(* are under no obligation to act.                                          *)
FairSpec == Spec /\ WF_vars(handleShellWebSocket) /\ WF_vars(PumpA)

(* EchoSpec: the handler with a shell whose terminal echoes its input: the   *)
(* k-th chunk the shell prints is the k-th chunk written to the PTY. The    *)
(* goroutines are scheduled fairly and the shell, while it runs, echoes.    *)
ShellEcho ==
    /\ proc = "running" /\ nOut < Len(ptyIn)
    /\ ptyOut' = Append(ptyOut, ptyIn[nOut + 1])
    /\ produced' = Append(produced, ptyIn[nOut + 1])
    /\ nOut' = nOut + 1
    /\ UNCHANGED <<inputs, tables, received, stops, pc, execVars, spawnCount,
                   ws, client, ptmx, proc, killIssued, pumpA, pumpB, done,
                   inbox, ptyIn, sent, ret, nIn>>

EchoNext ==
    handleShellWebSocket \/ PumpA \/ ClientSend \/ ClientClose \/ ShellEcho
        \/ ShellExit

EchoSpec ==
    /\ BridgeInit /\ [][EchoNext]_vars
    /\ WF_vars(handleShellWebSocket) /\ WF_vars(PumpA) /\ WF_vars(ShellEcho)

(* VariablesSpec: the handler on startup commands of a flow step that hold  *)
(* placeholders, "${A}", "a${A}${A}" and "${B} ${A}", under a configuration *)
(* that blocks nothing or blocks "a".                                       *)
PlaceholderCommands ==
    {Str(<<"$", "{", "A", "}">>),
     Str(<<"a", "$", "{", "A", "}", "$", "{", "A", "}">>),
     Str(<<"$", "{", "B", "}", " ", "$", "{", "A", "}">>)}

VariablesInit ==
    /\ handler = "handleShellWebSocket"
    /\ config \in {Ref([BlockedCommands |-> l]) :
                        l \in {<<>>, <<Str(<<"a">>)>>}}
    /\ command \in PlaceholderCommands
    /\ pc = "upgrade"
    /\ blocked = Nil
    /\ result = Nil
    /\ spawnCount = 0
    /\ NoBridge
    /\ NoSessions

VariablesSpec == VariablesInit /\ [][Next]_vars

-----------------------------------------------------------------------------
(* HandleShellWebSocket of backend/utils/ws_shell.go.                       *)
(* pc: "upgrade" -> "start" -> "command" -> "go" -> "wait" -> "returned".   *)
(* The package has no configuration; messages travel as raw bytes. The two  *)
(* time.Sleep calls before the step command only delay it.                  *)
UtilsInit ==
    /\ handler = "utils.HandleShellWebSocket"
    /\ config = Nil
    /\ command \in StartupCommands
    /\ pc = "upgrade"
    /\ blocked = Nil
    /\ result = Nil
    /\ spawnCount = 0
    /\ NoBridge
    /\ NoSessions

FailedToStart ==
    Str(<<"F","a","i","l","e","d"," ","t","o"," ","s","t","a","r","t"," ",
          "s","h","e","l","l","\r","\n">>)

UtilsUpgrade ==
    /\ pc = "upgrade"
    /\ \/ /\ ws' = "open"
          /\ pc' = "start"
          /\ UNCHANGED ret
       \/ /\ ret' = "upgradeErr"
          /\ pc' = "returned"
          /\ UNCHANGED ws
    /\ UNCHANGED <<inputs, tables, history, stops, execVars, spawnCount,
                   client, ptmx, proc, killIssued, pumpA, pumpB, done, inbox,
                   ptyIn, ptyOut, sent, nIn, nOut>>

(* pty.Start(cmd): on failure a plain text is sent to the client (its       *)
(* result ignored) and the error returned; the deferred conn.Close() runs.  *)
UtilsPtyStart ==
    /\ pc = "start"
    /\ spawnCount' = spawnCount + 1
    /\ \/ /\ ptmx' = "open"
          /\ proc' = "running"
          /\ pc' = "command"
          /\ UNCHANGED <<ret, ws, sent>>
       \/ /\ \E o \in WsWriteOutcomes :
                sent' = IF o = "ok" THEN Append(sent, FailedToStart) ELSE sent
          /\ ret' = "spawnErr"
          /\ ws' = "closed"
          /\ pc' = "returned"
          /\ UNCHANGED <<ptmx, proc>>
    /\ UNCHANGED <<inputs, tables, history, stops, execVars, client,
                   killIssued, pumpA, pumpB, done, inbox, ptyIn, ptyOut, nIn,
                   nOut>>

(* The `command` query parameter, when not empty, is written to the PTY as  *)
(* it is; the result of the write is ignored.                               *)
UtilsStepCommand ==
    /\ pc = "command"
    /\ IF command # <<>>
       THEN \E o \in PtyWriteOutcomes :
               ptyIn' = IF o = "ok" THEN Append(ptyIn, command) ELSE ptyIn
       ELSE UNCHANGED ptyIn
    /\ pc' = "go"
    /\ UNCHANGED <<inputs, tables, history, stops, execVars, spawnCount, ws,
                   client, ptmx, proc, killIssued, pumpA, pumpB, done, inbox,
                   ptyOut, sent, ret, nIn, nOut>>

(* done := make(chan struct{}) and the two go statements. *)
UtilsGo ==
    /\ pc = "go"
    /\ pumpB' = "running"
    /\ pumpA' = "running"
    /\ pc' = "wait"
    /\ UNCHANGED <<inputs, tables, history, stops, execVars, spawnCount, ws,
                   client, ptmx, proc, killIssued, done, inbox, ptyIn, ptyOut,
                   sent, ret, nIn, nOut>>

(* "exit" as bytes. *)
ExitText == <<101, 120, 105, 116>>

(* msgStr == "exit\r" || msgStr == "exit\n" || msgStr == "\x04" *)
IsExitMessage(msgStr) ==
    \/ msgStr = ExitText \o <<13>>
    \/ msgStr = ExitText \o <<10>>
    \/ msgStr = <<4>>

(* A faulty UtilsPumpB: an exit text is treated like any other message. *)
UtilsPumpBNoExit ==
    /\ pumpB = "running"
    /\ \/ /\ ws = "open" /\ inbox # <<>>
          /\ inbox' = Tail(inbox)
          /\ LET message == Head(inbox)
             IN  \E o \in PtyWriteOutcomes :
                    IF o = "ok"
                    THEN /\ ptyIn' = Append(ptyIn, message)
                         /\ UNCHANGED <<pumpB, done>>
                    ELSE /\ pumpB' = "done"
                         /\ done' = TRUE
                         /\ UNCHANGED ptyIn
       \/ /\ inbox = <<>> /\ (client = "closed" \/ ws = "closed")
          /\ pumpB' = "done"
          /\ done' = TRUE
          /\ UNCHANGED <<inbox, ptyIn>>
    /\ UNCHANGED <<inputs, tables, history, stops, pc, execVars, spawnCount,
                   ws, client, ptmx, proc, killIssued, pumpA, ptyOut, sent,
                   ret, nIn, nOut>>

(* One turn of the WebSocket -> PTY goroutine; its return closes `done`. *)
UtilsPumpB ==
    /\ pumpB = "running"
    /\ \/ /\ ws = "open" /\ inbox # <<>>
          /\ inbox' = Tail(inbox)
          /\ LET message == Head(inbox)
             IN  IF IsExitMessage(message)
                 THEN /\ \E o \in PtyWriteOutcomes :
                            ptyIn' = IF o = "ok"
                                     THEN Append(ptyIn, ExitText)
                                     ELSE ptyIn
                      /\ pumpB' = "done"
                      /\ done' = TRUE
                 ELSE \E o \in PtyWriteOutcomes :
                        IF o = "ok"
                        THEN /\ ptyIn' = Append(ptyIn, message)
                             /\ UNCHANGED <<pumpB, done>>
                        ELSE /\ pumpB' = "done"
                             /\ done' = TRUE
                             /\ UNCHANGED ptyIn
       \/ /\ inbox = <<>> /\ (client = "closed" \/ ws = "closed")
          /\ pumpB' = "done"
          /\ done' = TRUE
          /\ UNCHANGED <<inbox, ptyIn>>
    /\ UNCHANGED <<inputs, tables, history, stops, pc, execVars, spawnCount,
                   ws, client, ptmx, proc, killIssued, pumpA, ptyOut, sent,
                   ret, nIn, nOut>>

(* One turn of the PTY -> WebSocket goroutine: it returns when `done` is    *)
(* closed; else it reads with a 100 ms deadline, sends what it read, and    *)
(* returns on a failed send, on EOF and on any error that is not identical  *)
(* to os.ErrDeadlineExceeded. ptmx is an *os.File, whose Read wraps every   *)
(* error but io.EOF in an *os.PathError: the error of an expired deadline   *)
(* is a *PathError around os.ErrDeadlineExceeded, which `!=` tells apart    *)
(* from os.ErrDeadlineExceeded itself, so the goroutine returns when the    *)
(* deadline expires on a shell that has printed nothing (the last           *)
(* disjunct).                                                               *)
UtilsPumpA ==
    /\ pumpA = "running"
    /\ \/ /\ done
          /\ pumpA' = "done"
          /\ UNCHANGED <<ptyOut, sent>>
       \/ /\ ~done
          /\ ptmx = "open" /\ ptyOut # <<>>
          /\ ptyOut' = Tail(ptyOut)
          /\ \E o \in WsWriteOutcomes :
                IF o = "ok"
                THEN /\ sent' = Append(sent, Head(ptyOut))
                     /\ UNCHANGED pumpA
                ELSE /\ pumpA' = "done"
                     /\ UNCHANGED sent
       \/ /\ ~done
          /\ ptmx = "closed" \/ (proc # "running" /\ ptyOut = <<>>)
          /\ pumpA' = "done"
          /\ UNCHANGED <<ptyOut, sent>>
       \/ /\ ~done
          /\ ptmx = "open" /\ proc = "running" /\ ptyOut = <<>>
          /\ pumpA' = "done"
          /\ UNCHANGED <<ptyOut, sent>>
    /\ UNCHANGED <<inputs, tables, history, stops, pc, execVars, spawnCount,
                   ws, client, ptmx, proc, killIssued, pumpB, done, inbox,
                   ptyIn, ret, nIn, nOut>>

(* A faulty UtilsWaitDone: the teardown closes the PTY but kills nothing. *)
UtilsWaitDoneNoKill ==
    /\ pc = "wait"
    /\ done
    /\ ret' = "nil"
    /\ pc' = "returned"
    /\ ptmx' = "closed"
    /\ ws' = "closed"
    /\ UNCHANGED <<inputs, tables, history, stops, execVars, spawnCount,
                   client, proc, killIssued, pumpA, pumpB, done, inbox, ptyIn,
                   ptyOut, sent, nIn, nOut>>

(* <-done, return nil, and the deferred calls in reverse order:             *)
(* ptmx.Close() and cmd.Process.Kill(), then conn.Close().                  *)
UtilsWaitDone ==
    /\ pc = "wait"
    /\ done
    /\ ret' = "nil"
    /\ pc' = "returned"
    /\ ptmx' = "closed"
    /\ killIssued' = TRUE
    /\ proc' = IF proc = "running" THEN "killed" ELSE proc
    /\ ws' = "closed"
    /\ UNCHANGED <<inputs, tables, history, stops, execVars, spawnCount,
                   client, pumpA, pumpB, done, inbox, ptyIn, ptyOut, sent,
                   nIn, nOut>>

HandleShellWebSocket ==
    UtilsUpgrade \/ UtilsPtyStart \/ UtilsStepCommand \/ UtilsGo
        \/ UtilsWaitDone

UtilsClientSend == ClientSendOf(UtilsClientMessages)

UtilsEnvironment ==
    UtilsClientSend \/ ClientClose \/ ShellOutput \/ ShellExit

UtilsNext ==
    HandleShellWebSocket \/ UtilsPumpA \/ UtilsPumpB \/ UtilsEnvironment

UtilsSpec == UtilsInit /\ [][UtilsNext]_vars

FairUtilsSpec ==
    /\ UtilsSpec
    /\ WF_vars(HandleShellWebSocket)
    /\ WF_vars(UtilsPumpA)
    /\ WF_vars(UtilsPumpB)

-----------------------------------------------------------------------------
(* wsPty and shellHandler of the stand-alone server (part_002).             *)
(* wp.Pty is ptmx; wp.Cmd is nil until Start is called (spawnCount = 0);    *)
(* wp.Cmd.Process is nil while proc = "none". The server has no             *)
(* configuration and no command policy.                                     *)
(* pc of shellHandler: "upgrade" -> "start" -> "command" -> "go" -> "loop", *)
(* then the deferred calls "stop" -> "kill" -> "wait" -> "close", and       *)
(* "returned".                                                              *)
MaxStops == 2

(* Messages as ReadMessage returns them, with their type: a well-formed     *)
(* base64 text, a text that is not base64, and a binary message.            *)
ShellClientMessages ==
    {[mt |-> "text", payload |-> EncodeToString(<<97>>)],
     [mt |-> "text", payload |-> <<89, 81>>],
     [mt |-> "binary", payload |-> <<97>>]}

ShellInit ==
    /\ handler = "shellHandler"
    /\ config = Nil
    /\ command \in StartupCommands
    /\ pc = "upgrade"
    /\ blocked = Nil
    /\ result = Nil
    /\ spawnCount = 0
    /\ NoBridge
    /\ NoSessions

(* "Failed to start shell" *)
FailedToStartShell == SubSeq(FailedToStart, 1, 21)

(* wp.Start(): exec.Command, then pty.Start, whose error it returns. *)
wsPtyStart(ok) ==
    /\ spawnCount' = spawnCount + 1
    /\ IF ok
       THEN /\ ptmx' = "open"
            /\ proc' = "running"
       ELSE UNCHANGED <<ptmx, proc>>

ShellUpgrade ==
    /\ pc = "upgrade"
    /\ \/ /\ ws' = "open"
          /\ pc' = "start"
          /\ UNCHANGED ret
       \/ /\ ret' = "upgradeErr"
          /\ pc' = "returned"
          /\ UNCHANGED ws
    /\ UNCHANGED <<inputs, tables, history, stops, execVars, spawnCount,
                   client, ptmx, proc, killIssued, pumpA, pumpB, done, inbox,
                   ptyIn, ptyOut, sent, nIn, nOut>>

(* wp.Start(): on failure a plain text is sent (its result ignored) and the *)
(* handler returns; the only deferred call by then is conn.Close().         *)
ShellPtyStart ==
    /\ pc = "start"
    /\ \/ /\ wsPtyStart(TRUE)
          /\ pc' = "command"
          /\ UNCHANGED <<ret, ws, sent>>
       \/ /\ wsPtyStart(FALSE)
          /\ \E o \in WsWriteOutcomes :
                sent' = IF o = "ok" THEN Append(sent, FailedToStartShell)
                        ELSE sent
          /\ ret' = "spawnErr"
          /\ ws' = "closed"
          /\ pc' = "returned"
    /\ UNCHANGED <<inputs, tables, history, stops, execVars, client,
                   killIssued, pumpA, pumpB, done, inbox, ptyIn, ptyOut, nIn,
                   nOut>>

(* The `command` query parameter, when not empty, is written with "\n"; the *)
(* result of the write is ignored.                                          *)
ShellStepCommand ==
    /\ pc = "command"
    /\ IF command # <<>>
       THEN \E o \in PtyWriteOutcomes :
               ptyIn' = IF o = "ok" THEN Append(ptyIn, command \o <<10>>)
                        ELSE ptyIn
       ELSE UNCHANGED ptyIn
    /\ pc' = "go"
    /\ UNCHANGED <<inputs, tables, history, stops, execVars, spawnCount, ws,
                   client, ptmx, proc, killIssued, pumpA, pumpB, done, inbox,
                   ptyOut, sent, ret, nIn, nOut>>

ShellGo ==
    /\ pc = "go"
    /\ pumpA' = "running"
    /\ pc' = "loop"
    /\ UNCHANGED <<inputs, tables, history, stops, execVars, spawnCount, ws,
                   client, ptmx, proc, killIssued, pumpB, done, inbox, ptyIn,
                   ptyOut, sent, ret, nIn, nOut>>

(* A return of shellHandler once wp.Stop() is deferred: Stop runs first. *)
ShellReturn ==
    /\ ret' = "nil"
    /\ pc' = "stop"

(* One turn of the WebSocket -> PTY loop: ReadMessage, then by message type *)
(* Decode and Write (a text), nothing (a binary message), return (others).  *)
ShellReadLoop ==
    /\ pc = "loop"
    /\ \/ /\ ws = "open" /\ inbox # <<>>
          /\ inbox' = Tail(inbox)
          /\ LET mt == Head(inbox).mt
                 payload == Head(inbox).payload
                 decoded == DecodeString(payload)
             IN  CASE mt = "text" ->
                        IF decoded.err
                        THEN UNCHANGED <<ptyIn, pc, ret>>
                        ELSE \E o \in PtyWriteOutcomes :
                               IF o = "ok"
                               THEN /\ ptyIn' = Append(ptyIn, decoded.bytes)
                                    /\ UNCHANGED <<pc, ret>>
                               ELSE /\ ShellReturn
                                    /\ UNCHANGED ptyIn
                   [] mt = "binary" -> UNCHANGED <<ptyIn, pc, ret>>
                   [] OTHER -> /\ ShellReturn
                               /\ UNCHANGED ptyIn
       \/ /\ inbox = <<>> /\ client = "closed"
          /\ ShellReturn
          /\ UNCHANGED <<inbox, ptyIn>>
    /\ UNCHANGED <<inputs, tables, history, stops, execVars, spawnCount, ws,
                   client, ptmx, proc, killIssued, pumpA, pumpB, done, ptyOut,
                   sent, nIn, nOut>>

(* One turn of the PTY -> WebSocket goroutine: Read, Encode, WriteMessage. *)
ShellPumpA ==
    /\ pumpA = "running"
    /\ \/ /\ ptmx = "open" /\ ptyOut # <<>>
          /\ ptyOut' = Tail(ptyOut)
          /\ \E o \in WsWriteOutcomes :
                IF o = "ok"
                THEN /\ sent' = Append(sent, EncodeToString(Head(ptyOut)))
                     /\ UNCHANGED pumpA
                ELSE /\ pumpA' = "done"
                     /\ UNCHANGED sent
       \/ /\ ptmx = "closed" \/ (proc # "running" /\ ptyOut = <<>>)
          /\ pumpA' = "done"
          /\ UNCHANGED <<ptyOut, sent>>
    /\ UNCHANGED <<inputs, tables, history, stops, pc, execVars, spawnCount,
                   ws, client, ptmx, proc, killIssued, pumpB, done, inbox,
                   ptyIn, ret, nIn, nOut>>

(* wp.Stop() returns: to the deferred conn.Close() of shellHandler, or to   *)
(* whoever else called it.                                                  *)
wsPtyStopReturns ==
    /\ stops' = stops + 1
    /\ pc' = IF handler = "shellHandler" THEN "close" ELSE "idle"

(* A faulty wsPtyStopClose: Kill and Wait are called without the test of    *)
(* wp.Cmd and wp.Cmd.Process.                                               *)
wsPtyStopCloseUnguarded ==
    /\ pc = "stop"
    /\ ptmx' = IF ptmx = "open" THEN "closed" ELSE ptmx
    /\ pc' = "kill"
    /\ UNCHANGED <<inputs, tables, history, stops, execVars, spawnCount, ws,
                   client, proc, killIssued, pumpA, pumpB, done, inbox, ptyIn,
                   ptyOut, sent, ret, nIn, nOut>>

(* wp.Stop(), first part: wp.Pty.Close() when wp.Pty is not nil (closing a  *)
(* closed *os.File only returns an error), then the test of wp.Cmd and      *)
(* wp.Cmd.Process, on which Stop goes on or returns.                        *)
wsPtyStopClose ==
    /\ pc = "stop"
    /\ ptmx' = IF ptmx = "open" THEN "closed" ELSE ptmx
    /\ IF spawnCount > 0 /\ proc # "none"
       THEN /\ pc' = "kill"
            /\ UNCHANGED stops
       ELSE wsPtyStopReturns
    /\ UNCHANGED <<inputs, tables, history, execVars, spawnCount, ws, client,
                   proc, killIssued, pumpA, pumpB, done, inbox, ptyIn, ptyOut,
                   sent, ret, nIn, nOut>>

(* wp.Cmd.Process.Kill(): a nil Process is dereferenced (a panic); a        *)
(* running process is killed; for a process that has ended Kill changes     *)
(* nothing.                                                                 *)
wsPtyStopKill ==
    /\ pc = "kill"
    /\ IF proc = "none"
       THEN /\ ret' = "panic"
            /\ pc' = "panicked"
            /\ UNCHANGED <<proc, killIssued>>
       ELSE /\ killIssued' = TRUE
            /\ proc' = IF proc = "running" THEN "killed" ELSE proc
            /\ pc' = "wait"
            /\ UNCHANGED ret
    /\ UNCHANGED <<inputs, tables, history, stops, execVars, spawnCount, ws,
                   client, ptmx, pumpA, pumpB, done, inbox, ptyIn, ptyOut,
                   sent, nIn, nOut>>

(* wp.Cmd.Wait(): it blocks while the process runs, reaps a process that    *)
(* has ended, and only returns an error when Wait was called before.        *)
wsPtyStopWait ==
    /\ pc = "wait"
    /\ proc # "running"
    /\ proc' = IF proc \in {"killed", "exited"} THEN "reaped" ELSE proc
    /\ wsPtyStopReturns
    /\ UNCHANGED <<inputs, tables, history, execVars, spawnCount, ws, client,
                   ptmx, killIssued, pumpA, pumpB, done, inbox, ptyIn, ptyOut,
                   sent, ret, nIn, nOut>>

wsPtyStop == wsPtyStopClose \/ wsPtyStopKill \/ wsPtyStopWait

(* The deferred conn.Close(), last of the deferred calls. *)
ShellConnClose ==
    /\ pc = "close"
    /\ ws' = "closed"
    /\ pc' = "returned"
    /\ UNCHANGED <<inputs, tables, history, stops, execVars, spawnCount,
                   client, ptmx, proc, killIssued, pumpA, pumpB, done, inbox,
                   ptyIn, ptyOut, sent, ret, nIn, nOut>>

shellHandler ==
    ShellUpgrade \/ ShellPtyStart \/ ShellStepCommand \/ ShellGo
        \/ ShellReadLoop \/ wsPtyStop \/ ShellConnClose

ShellClientSend == ClientSendOf(ShellClientMessages)

ShellEnvironment ==
    ShellClientSend \/ ClientClose \/ ShellOutput \/ ShellExit

ShellNext == shellHandler \/ ShellPumpA \/ ShellEnvironment

ShellSpec == ShellInit /\ [][ShellNext]_vars

-----------------------------------------------------------------------------
(* PtySpec: a wsPty used by any caller. Start is called at most once, Stop  *)
(* at any time and up to MaxStops times, one call after the other; a        *)
(* goroutine reading the PTY as shellHandler's does runs beside the caller, *)
(* on an open connection.                                                   *)
PtyInit ==
    /\ handler = "wsPty"
    /\ config = Nil
    /\ command = <<>>
    /\ pc = "idle"
    /\ blocked = Nil
    /\ result = Nil
    /\ spawnCount = 0
    /\ ws = "open" /\ client = "connected" /\ ptmx = "nil" /\ proc = "none"
    /\ killIssued = FALSE /\ pumpA = "none" /\ pumpB = "none" /\ done = FALSE
    /\ inbox = <<>> /\ ptyIn = <<>> /\ ptyOut = <<>> /\ sent = <<>>
    /\ ret = "none" /\ nIn = 0 /\ nOut = 0
    /\ received = <<>> /\ produced = <<>> /\ stops = 0
    /\ NoSessions

CallStart ==
    /\ pc = "idle"
    /\ spawnCount = 0
    /\ \E ok \in BOOLEAN :
          /\ wsPtyStart(ok)
          /\ ret' = IF ok THEN ret ELSE "spawnErr"
    /\ UNCHANGED <<inputs, tables, history, stops, pc, execVars, ws, client,
                   killIssued, pumpA, pumpB, done, inbox, ptyIn, ptyOut, sent,
                   nIn, nOut>>

CallStop ==
    /\ pc = "idle"
    /\ stops < MaxStops
    /\ pc' = "stop"
    /\ UNCHANGED <<inputs, tables, history, stops, execVars, spawnCount, ws,
                   client, ptmx, proc, killIssued, pumpA, pumpB, done, inbox,
                   ptyIn, ptyOut, sent, ret, nIn, nOut>>

(* The go statement of the reading goroutine, after a successful Start. *)
GoReader ==
    /\ pc = "idle"
    /\ ptmx # "nil"
    /\ pumpA = "none"
    /\ pumpA' = "running"
    /\ UNCHANGED <<inputs, tables, history, stops, pc, execVars, spawnCount,
                   ws, client, ptmx, proc, killIssued, pumpB, done, inbox,
                   ptyIn, ptyOut, sent, ret, nIn, nOut>>

PtyNext ==
    CallStart \/ CallStop \/ GoReader \/ wsPtyStop \/ ShellPumpA
        \/ ShellOutput \/ ShellExit

PtySpec == PtyInit /\ [][PtyNext]_vars

-----------------------------------------------------------------------------
(* The two handlers that speak base64 in both directions, one or the other  *)
(* serving the connection.                                                  *)
Base64Init == BridgeInit \/ ShellInit

Base64Next ==
    \/ handler = "handleShellWebSocket" /\ Next
    \/ handler = "shellHandler" /\ ShellNext

Base64Spec == Base64Init /\ [][Base64Next]_vars

-----------------------------------------------------------------------------
(* HandlersSpec: the three WebSocket handlers, any one of them serving the  *)
(* connection.                                                              *)
HandlersInit == BridgeInit \/ UtilsInit \/ ShellInit

HandlersNext ==
    \/ handler = "handleShellWebSocket" /\ Next
    \/ handler = "utils.HandleShellWebSocket" /\ UtilsNext
    \/ handler = "shellHandler" /\ ShellNext

HandlersSpec == HandlersInit /\ [][HandlersNext]_vars

(* CancelSpec: the two handlers of the backend on a session without a       *)
(* startup command, their goroutines scheduled fairly; the client and the   *)
(* shell are under no obligation to act.                                    *)
CancelInit ==
    /\ BridgeInit \/ UtilsInit
    /\ command = <<>>
    /\ config # Nil => Deref(config).BlockedCommands = <<>>

CancelNext ==
    \/ handler = "handleShellWebSocket" /\ Next
    \/ handler = "utils.HandleShellWebSocket" /\ UtilsNext

CancelSpec ==
    /\ CancelInit /\ [][CancelNext]_vars
    /\ WF_vars(handler = "handleShellWebSocket" /\ handleShellWebSocket)
    /\ WF_vars(handler = "handleShellWebSocket" /\ PumpA)
    /\ WF_vars(handler = "utils.HandleShellWebSocket" /\ HandleShellWebSocket)
    /\ WF_vars(handler = "utils.HandleShellWebSocket" /\ UtilsPumpA)
    /\ WF_vars(handler = "utils.HandleShellWebSocket" /\ UtilsPumpB)

-----------------------------------------------------------------------------
(* SessionsSpec: handleShellWebSocket of backend/main.go serving two        *)
(* connections at once. Each call has its own locals, sessions[s]: its      *)
(* position pc, its `command` parameter, ws and ptmx (Nil, or a reference   *)
(* to an entry of conns or ptys), the state of its goroutine and what it    *)
(* returned. conns and ptys hold every connection upgraded and every PTY    *)
(* started so far, each with the call that created it (owner). The calls    *)
(* share the configuration, which they only read. Each client sends one     *)
(* message and each shell prints one chunk, both marked with the number of  *)
(* the connection or PTY they belong to.                                    *)
Sessions == {1, 2}

single == <<pc, execVars, spawnCount, bridgeVars, history, stops>>

SessionsInit ==
    /\ handler = "handleShellWebSocket, concurrently"
    /\ config = Ref([BlockedCommands |-> <<Str(<<"a">>)>>])
    /\ command = <<>>
    /\ pc = "sessions"
    /\ blocked = Nil
    /\ result = Nil
    /\ spawnCount = 0
    /\ NoBridge
    /\ sessions \in [Sessions ->
                       {[pc |-> "upgrade", command |-> c, ws |-> Nil,
                         ptmx |-> Nil, pumpA |-> "none", ret |-> "none"] :
                          c \in StartupCommands \ {<<>>}}]
    /\ conns = <<>>
    /\ ptys = <<>>

(* The message the client of connection c sends: base64 of "a", "b", ...    *)
ClientMessageOf(c) == EncodeToString(<<96 + c>>)

(* The chunk the shell of PTY p prints: "1", "2", ...                       *)
OutChunkOf(p) == <<48 + p>>

PtyWriteOutcomesOf(p) ==
    IF ptys[p].state # "open" THEN {"err"}
    ELSE IF ptys[p].proc = "running" THEN {"ok"}
    ELSE {"ok", "err"}

WsWriteOutcomesOf(c) ==
    IF conns[c].state # "open" THEN {"err"}
    ELSE IF conns[c].client = "connected" THEN {"ok"}
    ELSE {"ok", "err"}

SessionClientSend(c) ==
    /\ conns[c].state = "open" /\ conns[c].client = "connected"
    /\ conns[c].received = <<>>
    /\ conns' = [conns EXCEPT ![c].inbox = Append(@, ClientMessageOf(c)),
                              ![c].received = Append(@, ClientMessageOf(c))]
    /\ UNCHANGED <<inputs, single, sessions, ptys>>

SessionClientClose(c) ==
    /\ conns[c].client = "connected"
    /\ conns' = [conns EXCEPT ![c].client = "closed"]
    /\ UNCHANGED <<inputs, single, sessions, ptys>>

SessionShellOutput(p) ==
    /\ ptys[p].proc = "running" /\ ptys[p].produced = <<>>
    /\ ptys' = [ptys EXCEPT ![p].output = Append(@, OutChunkOf(p)),
                            ![p].produced = Append(@, OutChunkOf(p))]
    /\ UNCHANGED <<inputs, single, sessions, conns>>

SessionShellExit(p) ==
    /\ ptys[p].proc = "running"
    /\ ptys' = [ptys EXCEPT ![p].proc = "exited"]
    /\ UNCHANGED <<inputs, single, sessions, conns>>

(* upgrader.Upgrade: the new connection is the local ws of this call. *)
SessionUpgrade(s) ==
    /\ sessions[s].pc = "upgrade"
    /\ \/ /\ conns' = Append(conns, [owner |-> s, state |-> "open",
                                     client |-> "connected", inbox |-> <<>>,
                                     sent |-> <<>>, received |-> <<>>])
          /\ sessions' = [sessions EXCEPT ![s].ws = Ref(Len(conns) + 1),
                                          ![s].pc = "start"]
       \/ /\ sessions' = [sessions EXCEPT ![s].ret = "upgradeErr",
                                          ![s].pc = "returned"]
          /\ UNCHANGED conns
    /\ UNCHANGED <<inputs, single, ptys>>

(* A faulty SessionPtyStart: ptmx is a package-level variable, so the PTY   *)
(* just started becomes the ptmx of every call.                             *)
SessionPtyStartShared(s) ==
    /\ sessions[s].pc = "start"
    /\ \/ /\ ptys' = Append(ptys, [owner |-> s, state |-> "open",
                                   proc |-> "running", input |-> <<>>,
                                   output |-> <<>>, produced |-> <<>>])
          /\ sessions' =
                [t \in Sessions |->
                    IF t = s
                    THEN [sessions[t] EXCEPT !.ptmx = Ref(Len(ptys) + 1),
                                             !.pc = "command"]
                    ELSE [sessions[t] EXCEPT !.ptmx = Ref(Len(ptys) + 1)]]
          /\ UNCHANGED conns
       \/ /\ sessions' = [sessions EXCEPT ![s].ret = "spawnErr",
                                          ![s].pc = "returned"]
          /\ conns' = [conns EXCEPT ![Deref(sessions[s].ws)].state = "closed"]
          /\ UNCHANGED ptys
    /\ UNCHANGED <<inputs, single>>

(* pty.Start: the new PTY is the local ptmx of this call; on failure the    *)
(* call returns through its only defer, ws.Close().                         *)
SessionPtyStart(s) ==
    /\ sessions[s].pc = "start"
    /\ \/ /\ ptys' = Append(ptys, [owner |-> s, state |-> "open",
                                   proc |-> "running", input |-> <<>>,
                                   output |-> <<>>, produced |-> <<>>])
          /\ sessions' = [sessions EXCEPT ![s].ptmx = Ref(Len(ptys) + 1),
                                          ![s].pc = "command"]
          /\ UNCHANGED conns
       \/ /\ sessions' = [sessions EXCEPT ![s].ret = "spawnErr",
                                          ![s].pc = "returned"]
          /\ conns' = [conns EXCEPT ![Deref(sessions[s].ws)].state = "closed"]
          /\ UNCHANGED ptys
    /\ UNCHANGED <<inputs, single>>

(* A return of call s once both defers are registered: ptmx.Close() and    *)
(* ws.Close() on its own locals.                                            *)
SessionReturn(s, e, cs) ==
    /\ sessions' = [sessions EXCEPT ![s].ret = e, ![s].pc = "returned"]
    /\ ptys' = [ptys EXCEPT ![Deref(sessions[s].ptmx)].state = "closed"]
    /\ conns' = [cs EXCEPT ![Deref(sessions[s].ws)].state = "closed"]

SessionStartupCommand(s) ==
    /\ sessions[s].pc = "command"
    /\ LET cmd == sessions[s].command
           p == Deref(sessions[s].ptmx)
       IN  IF cmd # <<>> /\ isCommandBlocked(cmd)
           THEN SessionReturn(s, "forbidden", conns)
           ELSE /\ \E o \in PtyWriteOutcomesOf(p) :
                      ptys' = IF cmd # <<>> /\ o = "ok"
                              THEN [ptys EXCEPT
                                      ![p].input = Append(@, cmd \o <<10>>)]
                              ELSE ptys
                /\ sessions' = [sessions EXCEPT ![s].pc = "go"]
                /\ UNCHANGED conns
    /\ UNCHANGED <<inputs, single>>

SessionGoPumpA(s) ==
    /\ sessions[s].pc = "go"
    /\ sessions' = [sessions EXCEPT ![s].pumpA = "running", ![s].pc = "loop"]
    /\ UNCHANGED <<inputs, single, conns, ptys>>

(* One turn of the loop of call s: ReadMessage on its ws, DecodeString,     *)
(* Write on its ptmx.                                                       *)
SessionReadLoop(s) ==
    /\ sessions[s].pc = "loop"
    /\ LET c == Deref(sessions[s].ws)
           p == Deref(sessions[s].ptmx)
           rest == [conns EXCEPT ![c].inbox = Tail(@)]
       IN  \/ /\ conns[c].state = "open" /\ conns[c].inbox # <<>>
              /\ LET decodedInput == DecodeString(Head(conns[c].inbox))
                 IN  IF decodedInput.err
                     THEN /\ conns' = rest
                          /\ UNCHANGED <<sessions, ptys>>
                     ELSE \E o \in PtyWriteOutcomesOf(p) :
                            IF o = "ok"
                            THEN /\ conns' = rest
                                 /\ ptys' = [ptys EXCEPT ![p].input =
                                               Append(@, decodedInput.bytes)]
                                 /\ UNCHANGED sessions
                            ELSE SessionReturn(s, "nil", rest)
           \/ /\ conns[c].inbox = <<>> /\ conns[c].client = "closed"
              /\ SessionReturn(s, "nil", conns)
    /\ UNCHANGED <<inputs, single>>

(* One turn of the goroutine of call s: Read on its ptmx, EncodeToString,   *)
(* WriteMessage on its ws.                                                  *)
SessionPumpA(s) ==
    /\ sessions[s].pumpA = "running"
    /\ LET c == Deref(sessions[s].ws)
           p == Deref(sessions[s].ptmx)
       IN  \/ /\ ptys[p].state = "open" /\ ptys[p].output # <<>>
              /\ ptys' = [ptys EXCEPT ![p].output = Tail(@)]
              /\ \E o \in WsWriteOutcomesOf(c) :
                    IF o = "ok"
                    THEN /\ conns' = [conns EXCEPT ![c].sent =
                               Append(@, EncodeToString(Head(ptys[p].output)))]
                         /\ UNCHANGED sessions
                    ELSE /\ sessions' = [sessions EXCEPT ![s].pumpA = "done"]
                         /\ UNCHANGED conns
           \/ /\ \/ ptys[p].state = "closed"
                 \/ ptys[p].proc # "running" /\ ptys[p].output = <<>>
              /\ sessions' = [sessions EXCEPT ![s].pumpA = "done"]
              /\ UNCHANGED <<conns, ptys>>
    /\ UNCHANGED <<inputs, single>>

handleSession(s) ==
    \/ SessionUpgrade(s)
    \/ SessionPtyStart(s)
    \/ SessionStartupCommand(s)
    \/ SessionGoPumpA(s)
    \/ SessionReadLoop(s)

SessionsNext ==
    \/ \E s \in Sessions : handleSession(s)
    \/ \E s \in Sessions : SessionPumpA(s)
    \/ \E c \in 1..Len(conns) : SessionClientSend(c)
    \/ \E c \in 1..Len(conns) : SessionClientClose(c)
    \/ \E p \in 1..Len(ptys) : SessionShellOutput(p)
    \/ \E p \in 1..Len(ptys) : SessionShellExit(p)

SessionsSpec == SessionsInit /\ [][SessionsNext]_vars

-----------------------------------------------------------------------------
(* The blocking policy, stated without the code's loops: some entry of the  *)
(* configured list occurs in cmd byte for byte.                             *)
IsLiteralSubstring(sub, s) ==
    \E i \in 0..(Len(s) - Len(sub)) : \A j \in 1..Len(sub) : s[i + j] = sub[j]

MatchesBlockedList(cmd) ==
    /\ config # Nil
    /\ \E k \in 1..Len(Deref(config).BlockedCommands) :
          IsLiteralSubstring(Deref(config).BlockedCommands[k], cmd)

SpawnSucceeded == proc # "none"

(* C1: in handleShellWebSocket a blocked startup command makes the session  *)
(* fail with the policy violation without pty.Start ever being called:      *)
(* whenever the handler has returned the 403, the spawn count is 0.         *)
C1_BlockedCommandSpawnsNothing ==
    ret = "forbidden" => spawnCount = 0

(* C2: in handleShellWebSocket a supplied (non-empty) startup command that  *)
(* is blocked is never executed: nothing is written to the PTY, the         *)
(* PTY -> WebSocket goroutine is never started, the read loop is never      *)
(* entered (no client message is consumed) and nothing is sent to the       *)
(* client.                                                                  *)
C2_BlockedCommandNeverExecuted ==
    (command # <<>> /\ MatchesBlockedList(command)) =>
        /\ ptyIn = <<>>
        /\ pumpA = "none"
        /\ pc \notin {"go", "loop"}
        /\ Len(inbox) = nIn
        /\ sent = <<>>

C2_Witness ==
    /\ ret = "forbidden" /\ pc = "returned"
    /\ ws = "closed" /\ ptmx = "closed"
    /\ inbox # <<>> /\ ptyOut # <<>>

(* C3: isCommandBlocked returns true exactly when some entry of the         *)
(* configured list is a byte-for-byte substring of the command, and false   *)
(* when the configuration is absent or the list empty.                      *)
C3_BlockedIffLiteralSubstring ==
    blocked # Nil => (Deref(blocked) <=> MatchesBlockedList(command))

(* The second entry of the list decides, the first one differing from the   *)
(* command's text only in case.                                             *)
C3_Witness ==
    /\ blocked = Ref(TRUE)
    /\ Len(Deref(config).BlockedCommands) = 2
    /\ ~IsLiteralSubstring(Deref(config).BlockedCommands[1], command)
    /\ IsLiteralSubstring(ToLower(Deref(config).BlockedCommands[1]),
                          ToLower(command))

(* C4: executeCommand applies the same policy: for a blocked command it     *)
(* calls no process and returns ExitCode 1, Success false, empty Stdout     *)
(* and the policy text as Stderr; for any other command it runs exactly     *)
(* one process (one call of cmd.Run).                                       *)
C4_OneShotSamePolicy ==
    /\ pc # "responded" => (spawnCount = 0 /\ result = Nil)
    /\ pc = "responded" =>
          IF MatchesBlockedList(command)
          THEN /\ spawnCount = 0
               /\ result = Ref([Command |-> command, ExitCode |-> 1,
                                Stdout |-> "",
                                Stderr |-> "Command blocked by security policy",
                                Success |-> FALSE])
          ELSE spawnCount = 1

C4_Witness ==
    /\ pc = "responded"
    /\ MatchesBlockedList(command)
    /\ spawnCount = 0
    /\ Deref(result).Stderr = BlockedStderr

(* C5: in handleShellWebSocket, once the PTY -> WebSocket goroutine has     *)
(* terminated the handler eventually closes the PTY and the connection and  *)
(* returns, whatever the client does.                                       *)
C5_PumpAEndLeadsToTeardown ==
    (pumpA = "done") ~> (pc = "returned" /\ ptmx = "closed" /\ ws = "closed")

(* C6: in utils.HandleShellWebSocket, once the PTY -> WebSocket goroutine   *)
(* has terminated the wait on `done` eventually completes and the deferred  *)
(* teardown runs, whatever the client does.                                 *)
C6_UtilsPumpAEndLeadsToTeardown ==
    (pumpA = "done") ~>
        (pc = "returned" /\ ptmx = "closed" /\ killIssued /\ ws = "closed")

(* C7: in handleShellWebSocket, once the client has closed the connection   *)
(* of a session whose PTY is open the handler eventually returns with the   *)
(* PTY closed, and in no state has the client gone, the handler returned    *)
(* and the PTY stayed open.                                                 *)
C7_ClientCloseLeadsToPtyClosed ==
    /\ (client = "closed" /\ ptmx = "open")
          ~> (pc = "returned" /\ ptmx = "closed")
    /\ [](~(client = "closed" /\ pc = "returned" /\ ptmx = "open"))

(* The handler returned nil with the shell still running, so no PTY write   *)
(* failed: ReadMessage reported the client's close.                         *)
C7_Witness ==
    /\ client = "closed" /\ pc = "returned" /\ ret = "nil"
    /\ proc = "running" /\ ptmx = "closed"

(* C8: in handleShellWebSocket every return after a successful pty.Start    *)
(* issues a kill of the shell process besides closing the PTY.              *)
C8_ReturnKillsShell ==
    (pc = "returned" /\ SpawnSucceeded) => killIssued

(* C9: in utils.HandleShellWebSocket every return after a successful        *)
(* upgrade leaves the connection closed, and every return after a           *)
(* successful pty.Start leaves the PTY closed and Process.Kill issued.      *)
C9_UtilsReturnReleasesBoth ==
    pc = "returned" =>
        /\ ret # "upgradeErr" => ws = "closed"
        /\ SpawnSucceeded => (ptmx = "closed" /\ killIssued)
        /\ ptmx # "open"

C9_Witness ==
    /\ pc = "returned" /\ ret = "nil"
    /\ ws = "closed" /\ ptmx = "closed" /\ killIssued /\ proc = "killed"

(* C10: in handleShellWebSocket a failed pty.Start ends the handler: the    *)
(* error is returned, the connection closed, no goroutine started, nothing  *)
(* written to the PTY or sent, no client message consumed, and the PTY      *)
(* handle stays nil (never closed, never used).                             *)
C10_SpawnFailureIsFatal ==
    ret = "spawnErr" =>
        /\ pc = "returned"
        /\ ws = "closed"
        /\ ptmx = "nil" /\ proc = "none"
        /\ pumpA = "none"
        /\ ptyIn = <<>> /\ sent = <<>>
        /\ Len(inbox) = nIn

(* pty.Start failed for a session whose command the policy blocks and       *)
(* whose client had already sent a message.                                 *)
C10_Witness ==
    /\ ret = "spawnErr"
    /\ command # <<>> /\ MatchesBlockedList(command)
    /\ inbox # <<>>

(* C11: in utils.HandleShellWebSocket a failed pty.Start ends the session   *)
(* without any message having been sent to the client: the connection is    *)
(* closed with nothing on the data channel.                                 *)
C11_StartFailureSendsNothing ==
    ret = "spawnErr" => sent = <<>>

-----------------------------------------------------------------------------
(* Byte streams: the bytes of a sequence of chunks, and the prefix order.   *)
RECURSIVE Flatten(_)
Flatten(chunks) ==
    IF chunks = <<>> THEN <<>> ELSE Head(chunks) \o Flatten(Tail(chunks))

IsPrefix(a, b) == Len(a) <= Len(b) /\ a = SubSeq(b, 1, Len(a))

(* PTY reads that have returned a chunk so far. *)
ReadsDone == Len(produced) - Len(ptyOut)

(* The payloads sent so far, base64-decoded. *)
DecodedPayloads == [i \in 1..Len(sent) |-> DecodeString(sent[i]).bytes]

(* C12: in handleShellWebSocket every message sent is valid base64, message *)
(* i carries the chunk of the i-th PTY read, each read makes exactly one    *)
(* message (none only for the read whose send failed, which ends the        *)
(* goroutine), and the decoded payloads in send order are a prefix of the   *)
(* byte stream the PTY produced.                                            *)
C12_OutputInOrder ==
    /\ \A i \in 1..Len(sent) :
          /\ ~DecodeString(sent[i]).err
          /\ DecodeString(sent[i]).bytes = produced[i]
    /\ IsPrefix(Flatten(DecodedPayloads), Flatten(produced))
    /\ Len(sent) <= ReadsDone
    /\ ReadsDone <= Len(sent) + 1
    /\ pumpA = "running" => Len(sent) = ReadsDone

(* Two different chunks, the longer first, were read and sent in order. *)
C12_Witness ==
    /\ produced = << <<36, 32>>, <<255>> >>
    /\ ptyOut = <<>>
    /\ Len(sent) = 2
    /\ DecodedPayloads = produced

(* The client messages ReadMessage has returned so far. *)
Consumed == SubSeq(received, 1, Len(received) - Len(inbox))

(* The decodings of the messages of msgs that are valid base64, in order. *)
RECURSIVE ValidDecodings(_)
ValidDecodings(msgs) ==
    IF msgs = <<>> THEN <<>>
    ELSE LET d == DecodeString(Head(msgs))
         IN  (IF d.err THEN <<>> ELSE <<d.bytes>>)
             \o ValidDecodings(Tail(msgs))

(* What the handler may have written for the startup command. *)
StartupWrites ==
    IF command = <<>> THEN {<<>>} ELSE {<<>>, <<command \o <<10>>>>}

(* C13: in handleShellWebSocket what the loop has written to the PTY is the *)
(* decodings of the valid messages read so far, one write each, in receive  *)
(* order; only the write of the last message read may be missing, when it   *)
(* failed and the handler returned.                                         *)
C13_InputInOrder ==
    \E start \in StartupWrites :
        LET expected == ValidDecodings(Consumed)
        IN  \/ ptyIn = start \o expected
            \/ /\ pc = "returned"
               /\ Consumed # <<>>
               /\ ~DecodeString(Consumed[Len(Consumed)]).err
               /\ ptyIn = start \o SubSeq(expected, 1, Len(expected) - 1)

(* Two different valid messages were written after the startup command. *)
C13_Witness ==
    /\ received = <<EncodeToString(<<255, 10>>), EncodeToString(<<97>>)>>
    /\ inbox = <<>>
    /\ command # <<>>
    /\ ptyIn = <<command \o <<10>>, <<255, 10>>, <<97>>>>

(* A client message as the handler at hand sees it: shellHandler looks at   *)
(* the message type, handleShellWebSocket decodes whatever it reads.        *)
Payload(m) == IF handler = "shellHandler" THEN m.payload ELSE m
IsText(m) == handler = "shellHandler" => m.mt = "text"
Malformed(m) == IsText(m) /\ DecodeString(Payload(m)).err
WellFormed(m) == IsText(m) /\ ~DecodeString(Payload(m)).err

(* C14: in handleShellWebSocket and in shellHandler, reading a text message *)
(* that is not valid base64 writes nothing to the PTY and leaves the PTY    *)
(* open, the connection open and the handler in its loop; and while the     *)
(* handler is in its loop, every valid message it has read after a          *)
(* malformed one has been written to the PTY, decoded, after everything     *)
(* written before it.                                                       *)
C14_MalformedFrameDropped ==
    /\ [][(/\ pc = "loop" /\ inbox # <<>> /\ inbox' = Tail(inbox)
           /\ Malformed(Head(inbox)))
            => (/\ ptyIn' = ptyIn
                /\ pc' = "loop" /\ ret' = "none"
                /\ ptmx = "open" /\ ptmx' = "open"
                /\ ws = "open" /\ ws' = "open")]_vars
    /\ [](pc = "loop" =>
            \A j \in 2..Len(Consumed) :
                (Malformed(Consumed[j - 1]) /\ WellFormed(Consumed[j])) =>
                    \E k \in 1..Len(ptyIn) :
                        /\ ptyIn[k] = DecodeString(Payload(Consumed[j])).bytes
                        /\ Len(ptyIn) - k
                               = Cardinality({i \in (j + 1)..Len(Consumed) :
                                                WellFormed(Consumed[i])}))

(* shellHandler has read a malformed text and then a valid one, and the     *)
(* valid one's bytes are the last thing written to the PTY.                 *)
C14_Witness ==
    /\ handler = "shellHandler"
    /\ pc = "loop" /\ inbox = <<>>
    /\ Len(received) = 2
    /\ Malformed(received[1]) /\ WellFormed(received[2])
    /\ ptyIn # <<>>
    /\ ptyIn[Len(ptyIn)] = <<97>>
    /\ ptmx = "open" /\ ws = "open"

(* C15: for every byte sequence, decoding what the encoder made of it gives *)
(* no error and the sequence itself.                                        *)
C15_RoundTrip ==
    /\ pc # "decodeErr"
    /\ pc = "decoded" => ptyIn = ptyOut

(* The round trip of four bytes that are not UTF-8 text, the encoding of   *)
(* which takes two quanta, padding, and the digit "/".                      *)
C15_Witness ==
    /\ pc = "decoded"
    /\ ptyOut = << <<255, 0, 10, 61>> >>
    /\ ptyIn = ptyOut
    /\ Len(sent[1]) = 8
    /\ sent[1][1] = 47 /\ sent[1][8] = B64Pad

(* C16: in utils.HandleShellWebSocket every message sent while the session  *)
(* runs is the base64 text of the chunk read from the PTY, and every chunk  *)
(* written to the PTY for a client message is the base64 decoding of a      *)
(* message read from the client.                                            *)
C16_UtilsWireIsBase64 ==
    /\ ret # "spawnErr" =>
          \A i \in 1..Len(sent) : sent[i] = EncodeToString(produced[i])
    /\ \A k \in 1..Len(ptyIn) :
          \/ k = 1 /\ command # <<>> /\ IsPrefix(command, ptyIn[k])
          \/ \E j \in 1..Len(Consumed) :
                /\ ~DecodeString(Consumed[j]).err
                /\ ptyIn[k] = DecodeString(Consumed[j]).bytes

-----------------------------------------------------------------------------
(* Substitution as the flow documentation describes it: every occurrence of *)
(* "${key}" is replaced by the value, for each pair of the map in turn.     *)
RECURSIVE ReplaceAll(_, _, _)
ReplaceAll(s, old, new) ==
    IF old = <<>> \/ ~Contains(s, old) THEN s
    ELSE LET i == Index(s, old)
         IN  SubSeq(s, 1, i) \o new
             \o ReplaceAll(SubSeq(s, i + Len(old) + 1, Len(s)), old, new)

Placeholder(key) == <<36, 123>> \o key \o <<125>>

RECURSIVE Substitute(_, _)
Substitute(cmd, env) ==
    IF env = <<>> THEN cmd
    ELSE Substitute(ReplaceAll(cmd, Placeholder(Head(env).key),
                               Head(env).value),
                    Tail(env))

(* The variables of the flow the step belongs to: A = "w". *)
FlowVariables == <<[key |-> <<65>>, value |-> <<119>>]>>

(* C17: what handleShellWebSocket has written to the PTY when it starts the *)
(* goroutine is the startup command with the flow's variables substituted   *)
(* for their placeholders, followed by "\n".                                *)
C17_StartupCommandSubstituted ==
    (pc = "go" /\ ptyIn # <<>>) =>
        ptyIn = <<Substitute(command, FlowVariables) \o <<10>>>>

(* C18: in utils.HandleShellWebSocket, when the handler starts its          *)
(* goroutines an empty startup command has left the PTY input empty, and a  *)
(* startup command given to a running shell has been written exactly once,  *)
(* as the command followed by a line terminator.                            *)
C18_UtilsStartupCommandTerminated ==
    pc = "go" =>
        /\ command = <<>> => ptyIn = <<>>
        /\ command # <<>> =>
              /\ ptyIn \in {<<>>, <<command \o <<10>>>>,
                             <<command \o <<13>>>>,
                             <<command \o <<13, 10>>>>}
              /\ proc = "running" => ptyIn # <<>>

(* The session has failed or ended: the client has gone, the shell has      *)
(* gone, or the handler has returned.                                       *)
SessionOver == client = "closed" \/ proc # "running" \/ ret # "none"

(* The k-th message the client sent is valid base64. *)
ValidInput(k) == Len(received) >= k /\ ~DecodeString(received[k]).err

(* The k-th message has been read and its decoding written to the PTY. *)
WrittenToPty(k) ==
    /\ Len(Consumed) >= k
    /\ \E i \in 1..Len(ptyIn) : ptyIn[i] = DecodeString(received[k]).bytes

(* The echo of the k-th message has been sent to the client. *)
EchoSent(k) ==
    \E i \in 1..Len(sent) :
        DecodeString(sent[i]).bytes = DecodeString(received[k]).bytes

(* C19: in handleShellWebSocket with an echoing shell and fair scheduling,  *)
(* every valid message the client sends is eventually written to the PTY    *)
(* and its echo eventually sent to the client, unless the session ends      *)
(* first; and every chunk the shell prints is eventually sent, unless the   *)
(* session ends first.                                                      *)
C19_EchoEventuallySent ==
    /\ \A k \in 1..MaxIn :
          ValidInput(k) ~> (SessionOver \/ (WrittenToPty(k) /\ EchoSent(k)))
    /\ (ptyOut # <<>>) ~> (SessionOver \/ Len(sent) = Len(produced))

(* Both messages of a live session have come back to the client, after the  *)
(* echo of the startup command.                                             *)
C19_Witness ==
    /\ ~SessionOver
    /\ Len(received) = 2 /\ received[1] # received[2]
    /\ ValidInput(1) /\ ValidInput(2)
    /\ Len(sent) = 3
    /\ DecodeString(sent[2]).bytes = DecodeString(received[1]).bytes
    /\ DecodeString(sent[3]).bytes = DecodeString(received[2]).bytes

(* wp.Stop() returns in this step. *)
StopReturning == pc \in {"stop", "wait"} /\ pc' \in {"idle", "close"}

(* The session has been started and stopped. *)
Stopped == ptmx = "closed" /\ proc = "reaped" /\ killIssued

(* C20: wsPty.Stop in any state, after any number of earlier calls and      *)
(* beside a goroutine reading the PTY: it never panics; its Wait is never   *)
(* called on a process still running, so it cannot block for ever; when it  *)
(* returns on a session that was started, the PTY is closed and the process *)
(* killed and reaped; and once that is so, no later step (a second Stop,    *)
(* the reader's failing Read) changes the PTY handle or the process.        *)
C20_StopIdempotent ==
    /\ [](ret # "panic" /\ pc # "panicked")
    /\ [](pc = "wait" => proc # "running")
    /\ [][(StopReturning /\ ptmx # "nil") => Stopped']_vars
    /\ [][Stopped => (Stopped' /\ UNCHANGED <<ptmx, proc, killIssued, ret,
                                              spawnCount>>)]_vars

(* Stop has returned twice on a started session whose reader was cut off    *)
(* with output still unread.                                                *)
C20_Witness ==
    /\ handler = "wsPty"
    /\ stops = 2 /\ pc = "idle"
    /\ Stopped
    /\ pumpA = "done" /\ ptyOut # <<>>

(* C22: handleShellWebSocket calls pty.Start at most once per connection:   *)
(* the PTY handle is assigned by the first call only and never again, and   *)
(* once the handler has returned (spawn failure, blocked startup command or *)
(* end of session) nothing is spawned and the handler takes no further      *)
(* step.                                                                    *)
C22_OneSpawnPerConnection ==
    /\ [](spawnCount <= 1)
    /\ [](spawnCount = 0 => (ptmx = "nil" /\ proc = "none"))
    /\ [][ptmx' = "open" /\ ptmx # "open" =>
            ptmx = "nil" /\ spawnCount = 0]_vars
    /\ [][pc = "returned" =>
            pc' = "returned" /\ spawnCount' = spawnCount /\ ret' = ret]_vars

(* pty.Start failed and the client, still connected, has sent a message     *)
(* that nothing will read.                                                  *)
C22_Witness ==
    /\ pc = "returned" /\ ret = "spawnErr" /\ spawnCount = 1
    /\ client = "connected" /\ inbox # <<>>

(* C23: handleShellWebSocket returns an error exactly when the session was  *)
(* never established: the upgrade failed (no connection), pty.Start failed  *)
(* (no PTY) or the startup command was blocked (PTY started, no goroutine); *)
(* once the goroutine has been started the handler returns nil, whatever    *)
(* ended the loop.                                                          *)
C23_ErrorOnlyFromEstablishment ==
    /\ pc = "returned" <=> ret # "none"
    /\ ret \in {"none", "nil", "upgradeErr", "spawnErr", "forbidden"}
    /\ ret = "upgradeErr" <=> (pc = "returned" /\ ws = "none")
    /\ ret = "spawnErr" <=>
          (pc = "returned" /\ ws # "none" /\ ptmx = "nil")
    /\ ret = "forbidden" <=>
          (pc = "returned" /\ ptmx # "nil" /\ pumpA = "none")
    /\ ret = "forbidden" => (command # <<>> /\ isCommandBlocked(command))
    /\ ret = "nil" <=> (pc = "returned" /\ pumpA # "none")

(* The loop ended on a failed PTY write (the shell had exited; the client   *)
(* is still connected) and the handler returned nil.                        *)
C23_Witness ==
    /\ pc = "returned" /\ ret = "nil"
    /\ client = "connected" /\ proc = "exited" /\ Len(inbox) < nIn

C29_SuccessIffExitCodeZero ==
    result # Nil =>
        LET r == Deref(result)
        IN  /\ r.Success <=> r.ExitCode = 0
            /\ r.Command = command
            /\ r.ExitCode \in {0, -1} \cup ExitCodes
            /\ isCommandBlocked(command) =>
                  /\ r.ExitCode = 1 /\ ~r.Success
                  /\ r.Stdout = "" /\ r.Stderr = BlockedStderr

(* A command the policy allows could not be started: ExitCode -1 with       *)
(* nothing captured.                                                        *)
C29_Witness ==
    /\ pc = "responded" /\ result # Nil /\ ~isCommandBlocked(command)
    /\ Deref(result).ExitCode = -1 /\ ~Deref(result).Success
    /\ spawnCount = 1

(* C27: in utils.HandleShellWebSocket the PTY -> WebSocket goroutine ends   *)
(* only when `done` is closed, a send failed, the PTY reported EOF or a     *)
(* read failed for another reason than the deadline; a deadline that        *)
(* expires on a running shell with nothing to read ends nothing.            *)
C27_TimeoutKeepsPumpAlive ==
    [][pumpA = "running" /\ pumpA' = "done" =>
          \/ done
          \/ ptyOut' # ptyOut /\ sent' = sent
          \/ proc # "running" /\ ptyOut = <<>>
          \/ ptmx = "closed"]_vars

(* The WebSocket -> PTY goroutine of utils.HandleShellWebSocket takes the   *)
(* next message from the connection in this step.                           *)
UtilsReadsMessage ==
    pumpB = "running" /\ inbox # <<>> /\ inbox' = Tail(inbox)

(* C30: in utils.HandleShellWebSocket a message that is exactly "exit\r",   *)
(* "exit\n" or "\x04" makes the goroutine write "exit" in its place (or     *)
(* nothing, when the write fails), stop reading and close `done`; any other *)
(* message is written as it is and the goroutine reads on, unless that      *)
(* write failed; and once `done` is closed the handler returns with the PTY *)
(* closed, the process killed and the connection closed, whatever the shell *)
(* does.                                                                    *)
C30_ExitMessageEndsSession ==
    /\ [][UtilsReadsMessage =>
            IF IsExitMessage(Head(inbox))
            THEN /\ ptyIn' \in {ptyIn, Append(ptyIn, ExitText)}
                 /\ pumpB' = "done" /\ done'
            ELSE \/ /\ ptyIn' = Append(ptyIn, Head(inbox))
                    /\ pumpB' = "running" /\ done' = done
                 \/ /\ ptyIn' = ptyIn /\ "err" \in PtyWriteOutcomes
                    /\ pumpB' = "done" /\ done']_vars
    /\ done ~>
          (pc = "returned" /\ ptmx = "closed" /\ killIssued /\ ws = "closed")

(* "exit\r" was replaced by "exit", and the session was torn down with the  *)
(* client connected and the shell still running: the kill ended it.         *)
C30_Witness ==
    /\ pc = "returned" /\ client = "connected" /\ proc = "killed"
    /\ received # <<>> /\ received[Len(received)] = ExitText \o <<13>>
    /\ ptyIn # <<>> /\ ptyIn[Len(ptyIn)] = ExitText
    /\ inbox = <<>>

(* C26: in handleShellWebSocket and in utils.HandleShellWebSocket, once the *)
(* handler has returned no goroutine stays running: a goroutine still alive *)
(* then finds the PTY closed (and `done` closed, in utils), sends nothing   *)
(* more and ends.                                                           *)
C26_RemainingPumpEnds ==
    /\ [](pc = "returned" /\ (pumpA = "running" \/ pumpB = "running") =>
            /\ ptmx = "closed" /\ ws = "closed"
            /\ handler = "utils.HandleShellWebSocket" => done)
    /\ [][pc = "returned" => sent' = sent /\ ptyIn' = ptyIn]_vars
    /\ pc = "returned" ~> (pumpA # "running" /\ pumpB # "running")

(* The handler returned on the client's close while the goroutine was       *)
(* blocked in Read on an idle, running shell; the goroutine then ended.     *)
C26_Witness ==
    /\ pc = "returned" /\ ret = "nil" /\ pumpA = "done"
    /\ proc = "running" /\ ptyOut = <<>> /\ produced = <<>>
    /\ handler = "handleShellWebSocket"

(* What a step does to the connection and to the PTY. *)
ConnWritten == sent' # sent
ConnRead == inbox # <<>> /\ inbox' = Tail(inbox)
PtyWritten == ptyIn' # ptyIn
PtyRead == ptyOut # <<>> /\ ptyOut' = Tail(ptyOut)

NoPump == pumpA = "none" /\ pumpB = "none"

(* C25: in handleShellWebSocket and utils.HandleShellWebSocket each end of  *)
(* each resource is used by one goroutine: the connection is written by the *)
(* PTY -> WebSocket goroutine and read by the loop that feeds the PTY       *)
(* (the handler in main.go, the other goroutine in utils), the PTY is       *)
(* written by that loop and read by the PTY -> WebSocket goroutine; the     *)
(* handler's own startup-command write and spawn-failure message happen     *)
(* while no goroutine exists.                                               *)
C25_SingleReaderSingleWriter ==
    /\ [][handler = "handleShellWebSocket" =>
            /\ ConnWritten => PumpA
            /\ ConnRead => ReadLoop
            /\ PtyWritten => ReadLoop \/ (StartupCommand /\ NoPump)
            /\ PtyRead => PumpA]_vars
    /\ [][handler = "utils.HandleShellWebSocket" =>
            /\ ConnWritten => UtilsPumpA \/ (UtilsPtyStart /\ NoPump)
            /\ ConnRead => UtilsPumpB
            /\ PtyWritten => UtilsPumpB \/ (UtilsStepCommand /\ NoPump)
            /\ PtyRead => UtilsPumpA]_vars
    /\ [](pc \in {"upgrade", "start", "command"} => NoPump)
    /\ [](ret = "spawnErr" => NoPump)

(* Both directions have carried data in utils.HandleShellWebSocket after    *)
(* the handler itself wrote the startup command.                            *)
C25_Witness ==
    /\ handler = "utils.HandleShellWebSocket"
    /\ command # <<>> /\ Len(ptyIn) >= 2 /\ ptyIn[1] = command
    /\ sent # <<>> /\ pumpA = "running" /\ pumpB = "running"

(* C28: in each of the three handlers the startup command is written before *)
(* any goroutine runs: until it has been dealt with no goroutine exists, no *)
(* client message has been taken from the connection, nothing has been      *)
(* written to the PTY and nothing sent; the step that deals with a          *)
(* non-empty command leaves it as the only chunk written (or none, when the *)
(* write can fail), and the first chunk written never changes afterwards.   *)
C28_StartupCommandFirst ==
    /\ [](pc \in {"upgrade", "start", "command"} =>
            /\ NoPump
            /\ Consumed = <<>> /\ ptyIn = <<>> /\ sent = <<>>)
    /\ [][pc = "command" /\ pc' = "go" /\ command # <<>> =>
            \/ Len(ptyIn') = 1 /\ IsPrefix(command, ptyIn'[1])
            \/ ptyIn' = <<>> /\ "err" \in PtyWriteOutcomes]_vars
    /\ [][ptyIn # <<>> => ptyIn' # <<>> /\ ptyIn'[1] = ptyIn[1]]_vars

(* A client message that was waiting on the connection while the startup   *)
(* command was written reached the PTY after it, in shellHandler.           *)
C28_Witness ==
    /\ handler = "shellHandler"
    /\ command # <<>> /\ Len(ptyIn) >= 2
    /\ ptyIn[1] = command \o <<10>>
    /\ ptyIn[2] = <<97>>
    /\ sent # <<>>

(* The connections and the PTYs created by call s. *)
ConnsOfOwner(s) == {c \in 1..Len(conns) : conns[c].owner = s}
PtysOfOwner(s) == {p \in 1..Len(ptys) : ptys[p].owner = s}

(* C21: with two calls of handleShellWebSocket running at once, every chunk *)
(* written to a PTY is the startup command of the call that started it or   *)
(* the decoding of a message received on that call's own connection; every  *)
(* message sent on a connection encodes a chunk printed on the PTY of the   *)
(* call that upgraded it; a PTY or connection is closed only once the call  *)
(* that created it has returned; each call holds only the handles it        *)
(* created; and the configuration is never written.                         *)
C21_SessionsIndependent ==
    /\ [](\A p \in 1..Len(ptys) : \A i \in 1..Len(ptys[p].input) :
            \/ ptys[p].input[i] = sessions[ptys[p].owner].command \o <<10>>
            \/ \E c \in ConnsOfOwner(ptys[p].owner) :
                  \E j \in 1..Len(conns[c].received) :
                     ptys[p].input[i] =
                        DecodeString(conns[c].received[j]).bytes)
    /\ [](\A c \in 1..Len(conns) : \A i \in 1..Len(conns[c].sent) :
            \E p \in PtysOfOwner(conns[c].owner) :
               \E j \in 1..Len(ptys[p].produced) :
                  conns[c].sent[i] = EncodeToString(ptys[p].produced[j]))
    /\ [](\A p \in 1..Len(ptys) :
            ptys[p].state = "closed" =>
               sessions[ptys[p].owner].pc = "returned")
    /\ [](\A c \in 1..Len(conns) :
            conns[c].state = "closed" =>
               sessions[conns[c].owner].pc = "returned")
    /\ [](\A s \in Sessions :
            /\ sessions[s].ws # Nil =>
                  conns[Deref(sessions[s].ws)].owner = s
            /\ sessions[s].ptmx # Nil =>
                  ptys[Deref(sessions[s].ptmx)].owner = s)
    /\ [][config' = config]_vars

(* Both bridges have carried data in both directions; then the first was    *)
(* torn down while the second goes on with its PTY and connection open.     *)
C21_Witness ==
    /\ Len(conns) = 2 /\ Len(ptys) = 2
    /\ \A p \in 1..2 : ptys[p].input # <<>> /\ ptys[p].output = <<>>
    /\ \A c \in 1..2 : conns[c].sent # <<>> /\ conns[c].received # <<>>
    /\ sessions[1].pc = "returned" /\ sessions[1].ret = "nil"
    /\ sessions[2].pc = "loop" /\ sessions[2].pumpA = "running"
    /\ ptys[Deref(sessions[2].ptmx)].state = "open"
    /\ conns[Deref(sessions[2].ws)].state = "open"
    /\ sessions[1].ws = Ref(2) /\ sessions[1].ptmx = Ref(1)

====
